---- MODULE Spec2Model ----
(***************************************************************************)
(* LED sectional: weather ingestion and indicator-state derivation.        *)
(* Two sketches are modelled: led_sectional.ino (JSON document variant)    *)
(* and led-sectional.ino (XML streaming variant).  The variable `variant`  *)
(* fixes which sketch is running.  Slot indices are 0-based as in the      *)
(* source; TLA+ sequences are 1-based, so slot i of a list is list[i+1].   *)
(***************************************************************************)
EXTENDS Integers, Sequences, FiniteSets, TLC

VARIABLES
  variant,           \* "json" (led_sectional.ino) or "xml" (led-sectional.ino)
  airports,          \* the configured slot list
  leds,              \* CRGB leds[NUM_AIRPORTS], the LED store
  shown,             \* the frame last pushed by FastLED.show()
  lightningLeds,     \* hazard index vectors
  highwindLeds,
  windLeds,
  isWiFiConnected,
  ledStatus,
  loops,
  pc,                \* position of loop() inside the current tick
  originalColors,    \* blinkLEDs: colors saved by the pass in progress
  passStart,         \* history: the LED store when the current/last pass began
  delayed,           \* history: the delay() that ended the last tick
  fetchResult,       \* history: "ok" or "fail", outcome of the last getMetars()
  failure,           \* history: why getMetars() failed in the tick just ended
  lastPayload,       \* history: records resolved by getMetars() in that tick
  connectedThisTick, \* history: autoConnect() succeeded in this tick
  ticksSinceFetch,   \* history: ticks begun since the last getMetars() call
  gustIn,            \* gust derivation: raw observation under test
  gustOut,           \* gust derivation: derived wgst (-1: not yet derived)
  resolveIn,         \* single-record resolution: the doColor() call under test
  equiv,             \* both sketches on one payload: the payload and the results
  airportString,     \* getMetars(): the airport list of the last call
  pushed,            \* history: FastLED.show() was called in the current tick
  wait,              \* getMetars(): the wait loops, the connection and the clock
  sinceUpdate,       \* history: delay() time since the last successful update (-1: none)
  stream,            \* getMetars(): the XML read loop, one character at a time
  outage             \* input: calls of wm.autoConnect() by loop() that will return false

vars == <<variant, airports, leds, shown, lightningLeds, highwindLeds, windLeds,
          isWiFiConnected, ledStatus, loops, pc, originalColors, passStart,
          delayed, fetchResult, failure, lastPayload, connectedThisTick,
          ticksSinceFetch, gustIn, gustOut, resolveIn, equiv, airportString,
          pushed, wait, sinceUpdate, stream, outage>>

(***************************************************************************)
(* Bounds of the model                                                     *)
(***************************************************************************)
JsonSlots == 11          \* slots of the JSON board taken from the ASA list
XmlSlots == 8            \* slots of the XML board taken from its list
MaxRecords == 2          \* records per payload
MaxConnectFails == 3     \* calls of wm.autoConnect() that fail before one succeeds
TimeoutCuts == 3         \* read positions at which a stream is cut by a timeout
MaxWind == 30            \* largest wind speed and gust of a doColor() call
ReadTimeout == 2         \* clock ticks that make up READ_TIMEOUT seconds
MaxChars == 3            \* characters of a response in the wait loops
MaxIdle == 2             \* reads of the wait loops that find nothing to read

(***************************************************************************)
(* Program constants                                                       *)
(***************************************************************************)
LEGEND == 5

WIND_THRESHOLD == IF variant = "json" THEN 15 ELSE 14
HIGH_WIND_THRESHOLD == IF variant = "json" THEN 25 ELSE 19
FADE_FOR_HIGH_WINDS == TRUE
DO_LIGHTNING == TRUE
DO_WINDS == TRUE

\* the two sleep lengths, in ms
LOOP_INTERVAL == 1000
REQUEST_INTERVAL == 300000

\* loop(): the number of ticks between two fetches
loopThreshold ==
  IF DO_LIGHTNING \/ DO_WINDS THEN REQUEST_INTERVAL \div LOOP_INTERVAL ELSE 1

\* length of a delay() that ends a tick after getMetars() returned true
Millis(d) == IF d = "REQUEST_INTERVAL" THEN REQUEST_INTERVAL ELSE LOOP_INTERVAL

(***************************************************************************)
(* Colors: CRGB values as <<r, g, b>>                                      *)
(***************************************************************************)
Black == <<0, 0, 0>>
Green == <<0, 128, 0>>
Blue == <<0, 0, 255>>
Red == <<255, 0, 0>>
Magenta == <<255, 0, 255>>
Yellow == <<255, 255, 0>>
Orange == <<255, 165, 0>>
Purple == <<128, 0, 128>>
White == <<255, 255, 255>>
Gray == <<128, 128, 128>>
Cyan == <<0, 255, 255>>

\* CRGB::nscale8(scale): each channel (c * (scale + 1)) >> 8
nscale8(c, scale) == [k \in 1..3 |-> (c[k] * (scale + 1)) \div 256]

\* CRGB::operator%=(scale) is nscale8_video: a non-zero channel stays non-zero
nscale8_video(c, scale) ==
  [k \in 1..3 |-> IF c[k] = 0 THEN 0
                  ELSE ((c[k] * scale) \div 256) + (IF scale # 0 THEN 1 ELSE 0)]

(***************************************************************************)
(* Strings that are searched or scanned are sequences of characters        *)
(***************************************************************************)
IsDigit(c) == c \in {"0", "1", "2", "3", "4", "5", "6", "7", "8", "9"}

DigitVal(c) ==
  CASE c = "0" -> 0 [] c = "1" -> 1 [] c = "2" -> 2 [] c = "3" -> 3
    [] c = "4" -> 4 [] c = "5" -> 5 [] c = "6" -> 6 [] c = "7" -> 7
    [] c = "8" -> 8 [] c = "9" -> 9

\* String::indexOf(pat): first 0-based position of pat in s, or -1
IndexOf(s, pat) ==
  LET hits == {i \in 0..(Len(s) - Len(pat)) :
                 SubSeq(s, i + 1, i + Len(pat)) = pat}
  IN IF hits = {} THEN -1 ELSE CHOOSE i \in hits : \A j \in hits : i <= j

\* the run of digits of s that starts at 0-based position i
RECURSIVE DigitRun(_, _)
DigitRun(s, i) ==
  IF i < Len(s) /\ IsDigit(s[i + 1]) THEN <<s[i + 1]>> \o DigitRun(s, i + 1)
  ELSE <<>>

RECURSIVE DecimalValue(_)
DecimalValue(ds) ==
  IF ds = <<>> THEN 0
  ELSE DecimalValue(SubSeq(ds, 1, Len(ds) - 1)) * 10 + DigitVal(ds[Len(ds)])

\* isspace(): blank, \t, \n, \v (written "0x0B"), \f, \r
IsSpace(c) == c \in {" ", "\t", "\n", "0x0B", "\f", "\r"}

\* the first 0-based position of s at or after i that holds no white space
RECURSIVE SkipSpace(_, _)
SkipSpace(s, i) ==
  IF i < Len(s) /\ IsSpace(s[i + 1]) THEN SkipSpace(s, i + 1) ELSE i

\* String::toInt() is atol(): white space is skipped, then an optional sign
\* and the run of digits that follows give the value; 0 when there is none
toInt(s) ==
  LET i == SkipSpace(s, 0)
      signed == i < Len(s) /\ s[i + 1] \in {"+", "-"}
      value == DecimalValue(DigitRun(s, IF signed THEN i + 1 ELSE i))
  IN IF signed /\ s[i + 1] = "-" THEN -value ELSE value

TS_STR == <<"T", "S">>
LTG_STR == <<"L", "T", "G">>
LTNG_STR == <<"L", "T", "N", "G">>
NullText == <<"n", "u", "l", "l">>

\* the names that occur as slot codes, station identifiers and categories
Names ==
  {"", "VFR", "MVFR", "IFR", "LIFR", "WVFR", "NULL", "KUIL", "KHQM", "KGLS",
   "KT41", "KEFD", "KHOU", "KLVJ", "KAXH", "KSGR", "KLBX", "KXXX", "UNKN"}

\* the characters of a name
Spell(name) ==
  CASE name = "" -> <<>>
    [] name = "VFR" -> <<"V", "F", "R">>
    [] name = "MVFR" -> <<"M", "V", "F", "R">>
    [] name = "IFR" -> <<"I", "F", "R">>
    [] name = "LIFR" -> <<"L", "I", "F", "R">>
    [] name = "WVFR" -> <<"W", "V", "F", "R">>
    [] name = "NULL" -> <<"N", "U", "L", "L">>
    [] name = "KUIL" -> <<"K", "U", "I", "L">>
    [] name = "KHQM" -> <<"K", "H", "Q", "M">>
    [] name = "KGLS" -> <<"K", "G", "L", "S">>
    [] name = "KT41" -> <<"K", "T", "4", "1">>
    [] name = "KEFD" -> <<"K", "E", "F", "D">>
    [] name = "KHOU" -> <<"K", "H", "O", "U">>
    [] name = "KLVJ" -> <<"K", "L", "V", "J">>
    [] name = "KAXH" -> <<"K", "A", "X", "H">>
    [] name = "KSGR" -> <<"K", "S", "G", "R">>
    [] name = "KLBX" -> <<"K", "L", "B", "X">>
    [] name = "KXXX" -> <<"K", "X", "X", "X">>
    [] name = "UNKN" -> <<"U", "N", "K", "N">>

OtherName == "?"

\* the name a character string spells; every other text is OtherName
NameOf(text) ==
  IF \E n \in Names : Spell(n) = text
  THEN CHOOSE n \in Names : Spell(n) = text
  ELSE OtherName

\* String::endsWith(suffix)
EndsWith(s, suffix) ==
  /\ Len(s) >= Len(suffix)
  /\ SubSeq(s, Len(s) - Len(suffix) + 1, Len(s)) = suffix

(***************************************************************************)
(* Gust derivation of the JSON variant (getMetars, rawOb scan)             *)
(***************************************************************************)
\* gustIndex < rawOb.length() - 3 with length() unsigned: for a length below
\* 3 the right side wraps around to a value above every index
BelowLengthMinus3(gustIndex, length) ==
  IF length < 3 THEN TRUE ELSE gustIndex < length - 3

GustFromRaw(rawOb) ==
  IF Len(rawOb) > 0
  THEN LET gustIndex == IndexOf(rawOb, <<"G">>)
           gustStr == DigitRun(rawOb, gustIndex + 1)
       IN IF gustIndex > 0 /\ BelowLengthMinus3(gustIndex, Len(rawOb))
             /\ Len(gustStr) > 0
          THEN DecimalValue(gustStr)
          ELSE 0
  ELSE 0

(***************************************************************************)
(* Slot lists                                                              *)
(***************************************************************************)
AsaAirports ==
  <<"VFR", "MVFR", "IFR", "LIFR", "WVFR",
    "NULL", "KUIL", "NULL", "NULL", "NULL",
    "KHQM", "NULL", "KSHN", "KOLM", "KGRF",
    "KPLU", "KTCM", "KTIW", "KPWT", "KSEA",
    "KRNT", "KBFI", "KPAE", "KAWO", "NULL",
    "K0S9", "KNUW", "KBVS", "KBLI", "KFHR",
    "KORS", "CYYJ", "NULL", "KCLM">>

XmlAirports ==
  <<"KGLS", "KT41", "KEFD", "KHOU", "KLVJ", "KAXH", "KSGR", "NULL", "KLBX",
    "KBYY", "KARM", "KELA", "KTME", "KDWH", "KIAH", "NULL", "KT78", "K6R3",
    "KCXO", "KUTS", "NULL", "KCFD", "KCLL", "K60R", "K11R">>

\* a customized JSON board that carries two airports at two slots each
CustomAirports ==
  <<"VFR", "MVFR", "IFR", "LIFR", "WVFR",
    "KUIL", "NULL", "KHQM", "KUIL", "NULL",
    "KHQM", "NULL", "KUIL", "KHQM", "NULL">>

\* a customized XML board that carries two airports at two slots each
XmlCustomAirports ==
  <<"KGLS", "KT41", "NULL", "KGLS", "KEFD", "KT41", "NULL", "KHOU", "KGLS",
    "KT41", "NULL">>

JsonConfigs ==
  {SubSeq(AsaAirports, 1, JsonSlots), SubSeq(CustomAirports, 1, JsonSlots)}
XmlConfigs ==
  {SubSeq(XmlAirports, 1, XmlSlots), SubSeq(XmlCustomAirports, 1, XmlSlots)}

NUM_AIRPORTS == Len(airports)
Slots == 0..(NUM_AIRPORTS - 1)

\* fill_solid(leds, n, color)
fill_solid(n, color) == [i \in 0..(n - 1) |-> color]

(***************************************************************************)
(* State Resolver.  A resolver state st is the record                      *)
(* [leds, lightningLeds, highwindLeds, windLeds].                          *)
(***************************************************************************)
\* a lightning test that looks at the hazard text only
HasLightningWxOnly(wxstring, currentRawText) ==
  IndexOf(wxstring, TS_STR) # -1

\* thunderstorm in the hazard text, or lightning in the raw observation
HasLightning(wxstring, currentRawText) ==
  \/ IndexOf(wxstring, TS_STR) # -1
  \/ IndexOf(currentRawText, LTG_STR) # -1
  \/ IndexOf(currentRawText, LTNG_STR) # -1

\* hazard pushes with inclusive threshold comparisons
PushHazardsInclusive(st, led, wind, gusts, wxstring, currentRawText) ==
  LET l == IF HasLightning(wxstring, currentRawText)
           THEN Append(st.lightningLeds, led) ELSE st.lightningLeds
      high == (wind >= HIGH_WIND_THRESHOLD) \/ (gusts >= HIGH_WIND_THRESHOLD)
      mod == (wind >= WIND_THRESHOLD) \/ (gusts >= WIND_THRESHOLD)
  IN [st EXCEPT !.lightningLeds = l,
                !.highwindLeds = IF high THEN Append(@, led) ELSE @,
                !.windLeds = IF ~high /\ mod THEN Append(@, led) ELSE @]

\* the three hazard pushes shared by both sketches
PushHazards(st, led, wind, gusts, wxstring, currentRawText) ==
  LET l == IF HasLightning(wxstring, currentRawText)
           THEN Append(st.lightningLeds, led) ELSE st.lightningLeds
      high == (wind > HIGH_WIND_THRESHOLD) \/ (gusts > HIGH_WIND_THRESHOLD)
      mod == (wind > WIND_THRESHOLD) \/ (gusts > WIND_THRESHOLD)
  IN [st EXCEPT !.lightningLeds = l,
                !.highwindLeds = IF high THEN Append(@, led) ELSE @,
                !.windLeds = IF ~high /\ mod THEN Append(@, led) ELSE @]

\* base color that lets very high wind replace the category color
JsonColorWindFirst(wind, gusts, condition, wxstring, currentRawText) ==
  IF (wind > HIGH_WIND_THRESHOLD) \/ (gusts > HIGH_WIND_THRESHOLD) THEN Yellow
  ELSE IF condition = "LIFR" THEN Magenta
  ELSE IF condition = "IFR" THEN Red
  ELSE IF condition = "MVFR" THEN Blue
  ELSE IF condition = "VFR" THEN Green
  ELSE IF (wind > 0) \/ (gusts > 0) \/ HasLightning(wxstring, currentRawText)
       THEN nscale8(Gray, 51)
       ELSE Black

\* base color, JSON sketch
JsonColor(wind, gusts, condition, wxstring, currentRawText) ==
  IF condition = "LIFR" THEN Magenta
  ELSE IF condition = "IFR" THEN Red
  ELSE IF condition = "MVFR" THEN Blue
  ELSE IF condition = "VFR" THEN Green
  ELSE IF (wind > 0) \/ (gusts > 0) \/ HasLightning(wxstring, currentRawText)
       THEN nscale8(Gray, 51)
       ELSE Black

\* base color, XML sketch
XmlColor(identifier, condition) ==
  IF condition = "LIFR" \/ identifier = "LIFR" THEN Magenta
  ELSE IF condition = "IFR" THEN Red
  ELSE IF condition = "MVFR" THEN Blue
  ELSE IF condition = "VFR" THEN Green
  ELSE Black

\* doColor without its legend guard
doColorUnguarded(st, identifier, led, wind, gusts, condition, wxstring, currentRawText) ==
  LET h == PushHazards(st, led, wind, gusts, wxstring, currentRawText)
  IN [h EXCEPT !.leds[led] =
        JsonColor(wind, gusts, condition, wxstring, currentRawText)]

\* doColor, JSON sketch
doColor(st, identifier, led, wind, gusts, condition, wxstring, currentRawText) ==
  IF led < LEGEND THEN st
  ELSE doColorUnguarded(st, identifier, led, wind, gusts, condition,
                        wxstring, currentRawText)

\* doColor, XML sketch
doColorXml(st, identifier, led, wind, gusts, condition, wxstring, currentRawText) ==
  LET h == PushHazards(st, led, wind, gusts, wxstring, currentRawText)
  IN [h EXCEPT !.leds[led] = XmlColor(identifier, condition)]

\* a match loop that stops at the first slot that carries id
MatchFromFirst(id, i) ==
  LET hits == {k \in i..(NUM_AIRPORTS - 1) : airports[k + 1] = id}
  IN IF hits = {} THEN <<>>
     ELSE <<CHOOSE k \in hits : \A j \in hits : k <= j>>

\* the slots whose configured code equals id, in ascending order
RECURSIVE MatchFrom(_, _)
MatchFrom(id, i) ==
  IF i >= NUM_AIRPORTS THEN <<>>
  ELSE (IF airports[i + 1] = id THEN <<i>> ELSE <<>>) \o MatchFrom(id, i + 1)

MatchingLeds(id) == MatchFrom(id, 0)

(***************************************************************************)
(* JSON variant: projection of one array element into MetarData            *)
(***************************************************************************)
HasKey(o, k) == k \in DOMAIN o

MetarData(o) ==
  LET raw == IF HasKey(o, "rawOb") THEN o.rawOb ELSE NullText
  IN [icaoId |-> IF HasKey(o, "icaoId") THEN o.icaoId ELSE "null",
      fltCat |-> IF HasKey(o, "fltCat") THEN o.fltCat ELSE "",
      wspd |-> IF HasKey(o, "wspd") THEN o.wspd ELSE 0,
      wgst |-> GustFromRaw(raw),
      wxString |-> IF HasKey(o, "wxString") THEN o.wxString ELSE <<>>,
      rawOb |-> raw]

\* doColor over every matched slot of one record
RECURSIVE ColorMatched(_, _, _)
ColorMatched(st, m, led) ==
  IF led = <<>> THEN st
  ELSE ColorMatched(doColor(st, m.icaoId, Head(led), m.wspd, m.wgst,
                            m.fltCat, m.wxString, m.rawOb),
                    m, Tail(led))

\* a for loop that ends at the first element no slot is configured for
RECURSIVE ProcessArrayUntilUnmatched(_, _)
ProcessArrayUntilUnmatched(st, array) ==
  IF array = <<>> THEN st
  ELSE LET m == MetarData(Head(array))
       IN IF MatchingLeds(m.icaoId) = <<>> THEN st
          ELSE ProcessArrayUntilUnmatched(
                 ColorMatched(st, m, MatchingLeds(m.icaoId)), Tail(array))

\* the for loop over the JSON array
RECURSIVE ProcessArray(_, _)
ProcessArray(st, array) ==
  IF array = <<>> THEN st
  ELSE LET m == MetarData(Head(array))
       IN ProcessArray(ColorMatched(st, m, MatchingLeds(m.icaoId)), Tail(array))

\* an entry of getMetars() that keeps the three lists
KeepHazards(st) == st

\* lightningLeds.clear(); windLeds.clear(); highwindLeds.clear()
ClearHazards(st) ==
  [st EXCEPT !.lightningLeds = <<>>, !.highwindLeds = <<>>, !.windLeds = <<>>]

\* a cycle that leaves the weather LEDs as they are
KeepWeatherLeds(st) == st

\* weather LEDs to black, legend preserved
ResetWeatherLeds(st) ==
  [st EXCEPT !.leds = [i \in DOMAIN st.leds |->
                         IF i >= LEGEND THEN Black ELSE st.leds[i]]]

\* a failing getMetars() that blanks the weather LEDs before it fails
getMetarsFailBlanking(st) == ResetWeatherLeds(ClearHazards(st))

\* getMetars() of the JSON sketch returning false
getMetarsFail(st) == ClearHazards(st)

\* getMetars() of the JSON sketch returning true on the given array
getMetarsOk(st, array) ==
  ProcessArray(ResetWeatherLeds(ClearHazards(st)), array)

(***************************************************************************)
(* XML variant: resolution of the records of the stream                    *)
(***************************************************************************)
RECURSIVE ColorMatchedXml(_, _, _)
ColorMatchedXml(st, r, led) ==
  IF led = <<>> THEN st
  ELSE ColorMatchedXml(doColorXml(st, r.station_id, Head(led),
                                  toInt(r.wind_speed_kt), toInt(r.wind_gust_kt),
                                  r.flight_category, r.wx_string, r.raw_text),
                       r, Tail(led))

\* "Do the key LEDs now if they exist"
KeyLeds(st) ==
  [st EXCEPT !.leds = [i \in DOMAIN st.leds |->
     IF airports[i + 1] = "VFR" THEN Green
     ELSE IF airports[i + 1] = "MVFR" THEN Blue
     ELSE IF airports[i + 1] = "IFR" THEN Red
     ELSE IF airports[i + 1] = "LIFR" THEN Magenta
     ELSE st.leds[i]]]

\* entry of getMetars() of the XML sketch: clear the sets, blank the store
XmlEnter(st) ==
  [ClearHazards(st) EXCEPT !.leds = fill_solid(NUM_AIRPORTS, Black)]

(***************************************************************************)
(* Overlay pass (blinkLEDs; the three inline loops of the XML sketch)      *)
(***************************************************************************)
\* first loop of blinkLEDs: save each listed slot, then overwrite it
RECURSIVE BlinkApply(_, _, _, _, _)
BlinkApply(l, saved, ledList, blinkColor, fadeMode) ==
  IF ledList = <<>> THEN [leds |-> l, originalColors |-> saved]
  ELSE LET currentLed == Head(ledList)
       IN BlinkApply([l EXCEPT ![currentLed] =
                        IF fadeMode THEN nscale8_video(l[currentLed], 128)
                        ELSE blinkColor],
                     Append(saved, l[currentLed]),
                     Tail(ledList), blinkColor, fadeMode)

RECURSIVE BlinkRestore(_, _, _)

\* a restore indexed by the position in the list instead of the listed slot
BlinkRestoreByPosition(l, ledList, saved) ==
  [i \in DOMAIN l |-> IF i < Len(saved) THEN saved[i + 1] ELSE l[i]]

\* second loop of blinkLEDs: restore in list order
BlinkRestore(l, ledList, saved) ==
  IF ledList = <<>> THEN l
  ELSE BlinkRestore([l EXCEPT ![Head(ledList)] = Head(saved)],
                    Tail(ledList), Tail(saved))

Passes == {"lightning", "highwind", "wind"}
Hold(p) == CASE p = "lightning" -> "lightning_hold"
             [] p = "highwind" -> "highwind_hold"
             [] p = "wind" -> "wind_hold"
\* the moderate-wind pass run before the severe-wind pass
AfterPassWindFirst(p) == CASE p = "lightning" -> "wind"
                           [] p = "wind" -> "highwind"
                           [] p = "highwind" -> "fetch"
AfterPass(p) == CASE p = "lightning" -> "highwind"
                  [] p = "highwind" -> "wind"
                  [] p = "wind" -> "fetch"
PassList(p) == CASE p = "lightning" -> lightningLeds
                 [] p = "highwind" -> highwindLeds
                 [] p = "wind" -> windLeds
PassColor(p) == CASE p = "lightning" -> White
                  [] p = "highwind" -> Yellow
                  [] p = "wind" -> Black
\* a moderate-wind pass that blinks to black
PassFadeNever(p) == FALSE
PassFade(p) == p = "wind" /\ FADE_FOR_HIGH_WINDS
PassEnabled(p) == IF p = "lightning" THEN DO_LIGHTNING ELSE DO_WINDS

(***************************************************************************)
(* Payloads                                                                *)
(***************************************************************************)
RawLtg == <<"L", "T", "G">>
RawGust30 == <<"0", "9", "0", "1", "2", "G", "3", "0", "K", "T">>
NoText == <<>>

JsonObjects ==
  { [icaoId |-> "KUIL", fltCat |-> "VFR", wspd |-> 0, wxString |-> NoText, rawOb |-> NoText],
    [icaoId |-> "KUIL", fltCat |-> "IFR", wspd |-> 30, wxString |-> NoText, rawOb |-> RawLtg],
    [icaoId |-> "KUIL", fltCat |-> "", wspd |-> 16, wxString |-> TS_STR, rawOb |-> NoText],
    [icaoId |-> "KHQM", fltCat |-> "LIFR", wspd |-> 0, wxString |-> NoText, rawOb |-> RawGust30],
    [icaoId |-> "VFR", fltCat |-> "IFR", wspd |-> 30, wxString |-> TS_STR, rawOb |-> NoText],
    [icaoId |-> "", fltCat |-> "LIFR", wspd |-> 30, wxString |-> TS_STR, rawOb |-> NoText],
    [icaoId |-> "NULL", fltCat |-> "IFR", wspd |-> 30, wxString |-> TS_STR, rawOb |-> NoText],
    [icaoId |-> "KHQM"] }

XmlRecords ==
  { [station_id |-> "KGLS", flight_category |-> "VFR", wind_speed_kt |-> <<"0">>,
     wind_gust_kt |-> NoText, wx_string |-> NoText, raw_text |-> NoText],
    [station_id |-> "KGLS", flight_category |-> "IFR", wind_speed_kt |-> <<"3", "0">>,
     wind_gust_kt |-> NoText, wx_string |-> NoText, raw_text |-> RawLtg],
    [station_id |-> "KT41", flight_category |-> "MVFR", wind_speed_kt |-> <<"1", "0">>,
     wind_gust_kt |-> <<"1", "6">>, wx_string |-> TS_STR, raw_text |-> NoText],
    [station_id |-> "KT41", flight_category |-> "", wind_speed_kt |-> NoText,
     wind_gust_kt |-> NoText, wx_string |-> NoText, raw_text |-> NoText],
    [station_id |-> "NULL", flight_category |-> "IFR", wind_speed_kt |-> <<"3", "0">>,
     wind_gust_kt |-> NoText, wx_string |-> TS_STR, raw_text |-> NoText] }

SeqsUpTo(S, n) == UNION {[1..k -> S] : k \in 0..n}

JsonPayloads == SeqsUpTo(JsonObjects, MaxRecords)

\* the documents deserializeJson() accepts: an array of objects, or a value
\* that is no array (an object such as an error report, a number, null)
JsonDocuments ==
  {[type |-> "array", elements |-> a] : a \in JsonPayloads}
    \cup {[type |-> t, elements |-> <<>>] : t \in {"object", "number", "null"}}

\* doc.as<JsonArray>(): the array, or the null array, which has no elements
asJsonArray(doc) == IF doc.type = "array" THEN doc.elements ELSE <<>>
XmlPayloads == SeqsUpTo(XmlRecords, MaxRecords)

(***************************************************************************)
(* XML variant: the character parser of getMetars()                        *)
(***************************************************************************)
RAW_TEXT_TAG == <<"<", "r", "a", "w", "_", "t", "e", "x", "t", ">">>
STATION_ID_TAG == <<"<", "s", "t", "a", "t", "i", "o", "n", "_", "i", "d", ">">>
WIND_SPEED_TAG == <<"<", "w", "i", "n", "d", "_", "s", "p", "e", "e", "d", "_", "k", "t", ">">>
WIND_GUST_TAG == <<"<", "w", "i", "n", "d", "_", "g", "u", "s", "t", "_", "k", "t", ">">>
FLIGHT_CATEGORY_TAG == <<"<", "f", "l", "i", "g", "h", "t", "_", "c", "a", "t", "e", "g", "o", "r", "y", ">">>
WX_STRING_TAG == <<"<", "w", "x", "_", "s", "t", "r", "i", "n", "g", ">">>
GT == <<">">>
LT == <<"<">>
NEWLINE == "\n"

\* the closing tag of an opening tag
CloseTag(tag) == <<"<", "/">> \o Tail(tag)

Element(tag, text) == tag \o text \o CloseTag(tag)

\* the METAR element the service sends for one record; empty elements
\* other than raw_text and station_id are left out
XmlText(r) ==
  <<"<", "M", "E", "T", "A", "R", ">">>
    \o Element(RAW_TEXT_TAG, r.raw_text)
    \o Element(STATION_ID_TAG, Spell(r.station_id))
    \o (IF r.wind_speed_kt = <<>> THEN <<>>
        ELSE Element(WIND_SPEED_TAG, r.wind_speed_kt))
    \o (IF r.wind_gust_kt = <<>> THEN <<>>
        ELSE Element(WIND_GUST_TAG, r.wind_gust_kt))
    \o (IF r.wx_string = <<>> THEN <<>>
        ELSE Element(WX_STRING_TAG, r.wx_string))
    \o (IF r.flight_category = "" THEN <<>>
        ELSE Element(FLIGHT_CATEGORY_TAG, Spell(r.flight_category)))
    \o <<"<", "/", "M", "E", "T", "A", "R", ">">> \o <<NEWLINE>>

\* the response body for a sequence of records
RECURSIVE XmlDocument(_)
XmlDocument(recs) ==
  IF recs = <<>> THEN <<>> ELSE XmlText(Head(recs)) \o XmlDocument(Tail(recs))

\* the locals of getMetars() before the first character; events lists the
\* points at which the loop flushes the matched slots or matches a station
ParserStart ==
  [currentLine |-> <<>>, read |-> 0, events |-> <<>>,
   readingRawText |-> FALSE, readingAirport |-> FALSE,
   readingCondition |-> FALSE, readingWind |-> FALSE,
   readingGusts |-> FALSE, readingWxstring |-> FALSE,
   currentRawText |-> <<>>, currentAirport |-> <<>>,
   currentCondition |-> <<>>, currentWind |-> <<>>,
   currentGusts |-> <<>>, currentWxstring |-> <<>>]

\* the arguments a doColor() call takes from the locals
Fields(p) ==
  [station_id |-> NameOf(p.currentAirport),
   flight_category |-> NameOf(p.currentCondition),
   wind_speed_kt |-> p.currentWind, wind_gust_kt |-> p.currentGusts,
   wx_string |-> p.currentWxstring, raw_text |-> p.currentRawText]

\* a read loop that resets only the raw text and the station at <raw_text>
XmlReadKeepsFields(p, c) ==
  LET line == IF c = NEWLINE THEN <<>> ELSE Append(p.currentLine, c)
      q == [p EXCEPT !.currentLine = line, !.read = @ + 1]
      more == ~EndsWith(line, LT)
  IN IF EndsWith(line, RAW_TEXT_TAG)
     THEN [q EXCEPT !.events = Append(@, [kind |-> "flush", at |-> q.read,
                                          fields |-> Fields(p)]),
                    !.currentRawText = <<>>, !.currentAirport = <<>>,
                    !.readingRawText = TRUE]
     ELSE IF p.readingRawText
     THEN IF more THEN [q EXCEPT !.currentRawText = Append(@, c)]
          ELSE [q EXCEPT !.readingRawText = FALSE]
     ELSE IF EndsWith(line, STATION_ID_TAG)
     THEN [q EXCEPT !.readingAirport = TRUE]
     ELSE IF p.readingAirport
     THEN IF more THEN [q EXCEPT !.currentAirport = Append(@, c)]
          ELSE [q EXCEPT !.readingAirport = FALSE,
                         !.events = Append(@, [kind |-> "station",
                                               at |-> q.read,
                                               fields |-> Fields(p)])]
     ELSE IF EndsWith(line, WIND_SPEED_TAG)
     THEN [q EXCEPT !.readingWind = TRUE]
     ELSE IF p.readingWind
     THEN IF more THEN [q EXCEPT !.currentWind = Append(@, c)]
          ELSE [q EXCEPT !.readingWind = FALSE]
     ELSE IF EndsWith(line, WIND_GUST_TAG)
     THEN [q EXCEPT !.readingGusts = TRUE]
     ELSE IF p.readingGusts
     THEN IF more THEN [q EXCEPT !.currentGusts = Append(@, c)]
          ELSE [q EXCEPT !.readingGusts = FALSE]
     ELSE IF EndsWith(line, FLIGHT_CATEGORY_TAG)
     THEN [q EXCEPT !.readingCondition = TRUE]
     ELSE IF p.readingCondition
     THEN IF more THEN [q EXCEPT !.currentCondition = Append(@, c)]
          ELSE [q EXCEPT !.readingCondition = FALSE]
     ELSE IF EndsWith(line, WX_STRING_TAG)
     THEN [q EXCEPT !.readingWxstring = TRUE]
     ELSE IF p.readingWxstring
     THEN IF more THEN [q EXCEPT !.currentWxstring = Append(@, c)]
          ELSE [q EXCEPT !.readingWxstring = FALSE]
     ELSE q

\* one iteration of the read loop on character c
XmlRead(p, c) ==
  LET line == IF c = NEWLINE THEN <<>> ELSE Append(p.currentLine, c)
      q == [p EXCEPT !.currentLine = line, !.read = @ + 1]
      more == ~EndsWith(line, LT)
  IN IF EndsWith(line, RAW_TEXT_TAG)
     THEN [q EXCEPT !.events = Append(@, [kind |-> "flush", at |-> q.read,
                                          fields |-> Fields(p)]),
                    !.currentRawText = <<>>, !.currentAirport = <<>>,
                    !.readingRawText = TRUE, !.currentCondition = <<>>,
                    !.currentWind = <<>>, !.currentGusts = <<>>,
                    !.currentWxstring = <<>>]
     ELSE IF p.readingRawText
     THEN IF more THEN [q EXCEPT !.currentRawText = Append(@, c)]
          ELSE [q EXCEPT !.readingRawText = FALSE]
     ELSE IF EndsWith(line, STATION_ID_TAG)
     THEN [q EXCEPT !.readingAirport = TRUE]
     ELSE IF p.readingAirport
     THEN IF more THEN [q EXCEPT !.currentAirport = Append(@, c)]
          ELSE [q EXCEPT !.readingAirport = FALSE,
                         !.events = Append(@, [kind |-> "station",
                                               at |-> q.read,
                                               fields |-> Fields(p)])]
     ELSE IF EndsWith(line, WIND_SPEED_TAG)
     THEN [q EXCEPT !.readingWind = TRUE]
     ELSE IF p.readingWind
     THEN IF more THEN [q EXCEPT !.currentWind = Append(@, c)]
          ELSE [q EXCEPT !.readingWind = FALSE]
     ELSE IF EndsWith(line, WIND_GUST_TAG)
     THEN [q EXCEPT !.readingGusts = TRUE]
     ELSE IF p.readingGusts
     THEN IF more THEN [q EXCEPT !.currentGusts = Append(@, c)]
          ELSE [q EXCEPT !.readingGusts = FALSE]
     ELSE IF EndsWith(line, FLIGHT_CATEGORY_TAG)
     THEN [q EXCEPT !.readingCondition = TRUE]
     ELSE IF p.readingCondition
     THEN IF more THEN [q EXCEPT !.currentCondition = Append(@, c)]
          ELSE [q EXCEPT !.readingCondition = FALSE]
     ELSE IF EndsWith(line, WX_STRING_TAG)
     THEN [q EXCEPT !.readingWxstring = TRUE]
     ELSE IF p.readingWxstring
     THEN IF more THEN [q EXCEPT !.currentWxstring = Append(@, c)]
          ELSE [q EXCEPT !.readingWxstring = FALSE]
     ELSE q

\* the read loop on the characters lo..hi of doc, in order: the first
\* half is read to its end before the second half starts
RECURSIVE XmlReadRange(_, _, _, _)
XmlReadRange(p, doc, lo, hi) ==
  IF lo > hi THEN p
  ELSE IF lo = hi THEN XmlRead(p, doc[lo])
  ELSE LET mid == (lo + hi) \div 2
           half == XmlReadRange(p, doc, lo, mid)
       IN IF half.read >= mid THEN XmlReadRange(half, doc, mid + 1, hi)
          ELSE half

\* the locals after the whole body has been read
XmlParse(doc) == XmlReadRange(ParserStart, doc, 1, Len(doc))

\* the parses of the bodies the model fetches
XmlParsed ==
  {[recs |-> recs, doc |-> XmlDocument(recs), parse |-> XmlParse(XmlDocument(recs))] :
     recs \in XmlPayloads}

\* the body sent for recs and the locals after it has been read
XmlBody(recs) ==
  IF recs \in XmlPayloads
  THEN CHOOSE e \in XmlParsed : e.recs = recs
  ELSE [recs |-> recs, doc |-> XmlDocument(recs),
        parse |-> XmlParse(XmlDocument(recs))]

XmlParseOf(recs) == XmlBody(recs).parse

\* what the read loop does to the store and to the local vector led at the
\* events up to character `upto`: a flush colors the slots of led and
\* clears it, a station identifier appends the slots that carry it
RECURSIVE ReplayEvents(_, _, _)
ReplayEvents(r, events, upto) ==
  IF events = <<>> \/ Head(events).at > upto THEN r
  ELSE LET e == Head(events)
       IN ReplayEvents(
            IF e.kind = "flush"
            THEN [st |-> ColorMatchedXml(r.st, e.fields, r.led), led |-> <<>>]
            ELSE [r EXCEPT !.led = @ \o MatchingLeds(e.fields.station_id)],
            Tail(events), upto)

\* getMetars() without the flush that follows the read loop
getMetarsXmlNoFinalFlush(st, recs) ==
  LET p == XmlParseOf(recs)
      r == ReplayEvents([st |-> XmlEnter(st), led |-> <<>>], p.events, p.read)
  IN KeyLeds(r.st)

\* getMetars() of the XML sketch returning true
getMetarsXmlOk(st, recs) ==
  LET p == XmlParseOf(recs)
      r == ReplayEvents([st |-> XmlEnter(st), led |-> <<>>], p.events, p.read)
  IN KeyLeds(ColorMatchedXml(r.st, Fields(p), r.led))

\* a read timeout that leaves the store as the parser left it
getMetarsXmlTimeoutNoStatus(st, recs, read) ==
  ReplayEvents([st |-> XmlEnter(st), led |-> <<>>],
               XmlParseOf(recs).events, read).st

\* getMetars() of the XML sketch, read timeout after `read` characters of
\* the body: the store is filled with the cyan status color
getMetarsXmlTimeout(st, recs, read) ==
  [ReplayEvents([st |-> XmlEnter(st), led |-> <<>>],
                XmlParseOf(recs).events, read).st
     EXCEPT !.leds = fill_solid(NUM_AIRPORTS, Cyan)]

\* the read positions at which the model lets the timeout fire
ReadCuts(recs) ==
  {(k * Len(XmlBody(recs).doc)) \div TimeoutCuts : k \in 0..(TimeoutCuts - 1)}

\* the loop that builds the comma-separated airport list: slots from `i` on,
\* skipping the identifiers in `skipped`
RECURSIVE BuildAirportString(_, _, _, _)
BuildAirportString(i, str, firstAirport, skipped) ==
  IF i >= NUM_AIRPORTS THEN str
  ELSE IF airports[i + 1] \in skipped
       THEN BuildAirportString(i + 1, str, firstAirport, skipped)
       ELSE IF firstAirport
            THEN BuildAirportString(i + 1, Spell(airports[i + 1]), FALSE, skipped)
            ELSE BuildAirportString(i + 1, str \o <<",">> \o Spell(airports[i + 1]),
                                    FALSE, skipped)

\* the list built from slot 0 on
AirportStringFromZero == BuildAirportString(0, <<>>, TRUE, {"NULL"})

\* airportString when the request is written
AirportString ==
  IF variant = "json"
  THEN BuildAirportString(LEGEND, <<>>, TRUE, {"NULL"})
  ELSE BuildAirportString(0, <<>>, TRUE, {"NULL", "VFR", "MVFR", "IFR", "LIFR"})

\* the interrupted reads: the body sent, the position of the timeout and the
\* characters received before it
XmlTimeouts ==
  UNION {{[recs |-> e.recs, read |-> read, received |-> SubSeq(e.doc, 1, read)] :
            read \in ReadCuts(e.recs)} : e \in XmlParsed}

\* the ways getMetars() of the JSON sketch returns false; body_timeout is
\* the read idle timeout that breaks the body loop on a truncated array,
\* which then fails in deserializeJson()
JsonFailures == {"connect", "connect_timeout", "header_timeout",
                 "no_header_end", "empty_body", "json_error",
                 "body_timeout"}

(***************************************************************************)
(* Initial state: the state after setup()                                  *)
(***************************************************************************)
\* leds[] after setup() of the JSON sketch: legend set, the rest zero
SetupLeds(n) ==
  [i \in 0..(n - 1) |->
     CASE i = 0 -> Green [] i = 1 -> Blue [] i = 2 -> Red
       [] i = 3 -> Magenta [] i = 4 -> Yellow [] OTHER -> Black]

InitCommon ==
  /\ \/ /\ variant = "json"
        /\ airports \in JsonConfigs
        /\ leds = SetupLeds(Len(airports))
     \/ /\ variant = "xml"
        /\ airports \in XmlConfigs
        /\ leds = fill_solid(Len(airports), Black)
  /\ shown = leds
  /\ lightningLeds = <<>>
  /\ highwindLeds = <<>>
  /\ windLeds = <<>>
  /\ isWiFiConnected = FALSE
  /\ ledStatus = TRUE
  /\ loops = -1
  /\ pc = "loop"
  /\ originalColors = <<>>
  /\ passStart = leds
  /\ delayed = "none"
  /\ fetchResult = "none"
  /\ failure = "none"
  /\ lastPayload = <<>>
  /\ connectedThisTick = FALSE
  /\ ticksSinceFetch = 0

NoCall == [led |-> -1]
NoRun == [stage |-> "idle"]
NoWait == [stage |-> "idle"]
NoStream == [stage |-> "idle"]

Init ==
  /\ InitCommon
  /\ outage \in 0..MaxConnectFails
  /\ gustIn = <<>>
  /\ gustOut = -1
  /\ resolveIn = NoCall
  /\ equiv = NoRun
  /\ airportString = <<>>
  /\ pushed = FALSE
  /\ wait = NoWait
  /\ sinceUpdate = -1
  /\ stream = NoStream

tickVars == <<variant, airports, leds, shown, lightningLeds, highwindLeds,
              windLeds, isWiFiConnected, ledStatus, loops, pc, originalColors,
              passStart, delayed, fetchResult, failure, lastPayload,
              connectedThisTick, ticksSinceFetch, outage>>

(***************************************************************************)
(* loop(): status indication and WiFi connect                              *)
(***************************************************************************)
\* setStatusLEDs(color): weather slots only (JSON sketch)
setStatusLEDs(l, color) ==
  [i \in DOMAIN l |-> IF i >= LEGEND THEN color ELSE l[i]]

\* status fill of either sketch
StatusFill(l, color) ==
  IF variant = "json" THEN setStatusLEDs(l, color)
  ELSE fill_solid(NUM_AIRPORTS, color)

\* loops++ and, while not connected, the "connecting" indication
LoopBegin ==
  /\ pc = "loop"
  /\ loops' = loops + 1
  /\ ticksSinceFetch' = ticksSinceFetch + 1
  /\ connectedThisTick' = FALSE
  /\ failure' = "none"
  /\ lastPayload' = <<>>
  /\ IF ~isWiFiConnected
     THEN /\ leds' = IF ledStatus THEN StatusFill(leds, Orange) ELSE leds
          /\ shown' = IF ledStatus \/ variant = "xml" THEN leds' ELSE shown
          /\ pc' = "connect"
     ELSE /\ pc' = "lightning"
          /\ UNCHANGED <<leds, shown>>
  /\ pushed' = (~isWiFiConnected /\ (ledStatus \/ variant = "xml"))
  /\ UNCHANGED <<variant, airports, lightningLeds, highwindLeds, windLeds,
                 isWiFiConnected, ledStatus, originalColors, passStart,
                 delayed, fetchResult, gustIn, gustOut, resolveIn, equiv,
                 airportString, wait, sinceUpdate, stream, outage>>

\* a successful connect that shows no status color
ConnectOkSilent ==
  /\ pc = "connect"
  /\ outage = 0
  /\ isWiFiConnected' = TRUE
  /\ leds' = leds
  /\ shown' = IF ledStatus \/ variant = "xml" THEN leds' ELSE shown
  /\ ledStatus' = FALSE
  /\ connectedThisTick' = TRUE
  /\ pc' = "lightning"
  /\ UNCHANGED <<variant, airports, lightningLeds, highwindLeds, windLeds,
                 loops, originalColors, passStart, delayed, fetchResult, failure,
                 lastPayload, ticksSinceFetch, gustIn, gustOut, resolveIn, equiv,
                 airportString, wait, sinceUpdate, stream, outage>>
  /\ pushed' = (pushed \/ ledStatus \/ variant = "xml")

\* wm.autoConnect() returns true
ConnectOk ==
  /\ pc = "connect"
  /\ outage = 0
  /\ isWiFiConnected' = TRUE
  /\ leds' = IF ledStatus THEN StatusFill(leds, Purple) ELSE leds
  /\ shown' = IF ledStatus \/ variant = "xml" THEN leds' ELSE shown
  /\ ledStatus' = FALSE
  /\ connectedThisTick' = TRUE
  /\ pc' = "lightning"
  /\ UNCHANGED <<variant, airports, lightningLeds, highwindLeds, windLeds,
                 loops, originalColors, passStart, delayed, fetchResult, failure,
                 lastPayload, ticksSinceFetch, gustIn, gustOut, resolveIn, equiv,
                 airportString, wait, sinceUpdate, stream, outage>>
  /\ pushed' = (pushed \/ ledStatus \/ variant = "xml")

\* a failed connect after which the tick goes on to the passes and the fetch
ConnectFailContinues ==
  /\ pc = "connect"
  /\ outage > 0
  /\ outage' = outage - 1
  /\ leds' = StatusFill(leds, Orange)
  /\ shown' = leds'
  /\ ledStatus' = TRUE
  /\ delayed' = "none"
  /\ pc' = "lightning"
  /\ UNCHANGED <<variant, airports, lightningLeds, highwindLeds, windLeds,
                 isWiFiConnected, loops, originalColors, passStart,
                 fetchResult, failure, lastPayload, connectedThisTick, ticksSinceFetch,
                 gustIn, gustOut, resolveIn, equiv,
                 airportString, wait, sinceUpdate, stream>>
  /\ pushed' = TRUE

\* wm.autoConnect() returns false: orange, and loop() returns
ConnectFail ==
  /\ pc = "connect"
  /\ outage > 0
  /\ outage' = outage - 1
  /\ leds' = StatusFill(leds, Orange)
  /\ shown' = leds'
  /\ ledStatus' = TRUE
  /\ delayed' = "none"
  /\ pc' = "loop"
  /\ UNCHANGED <<variant, airports, lightningLeds, highwindLeds, windLeds,
                 isWiFiConnected, loops, originalColors, passStart,
                 fetchResult, failure, lastPayload, connectedThisTick, ticksSinceFetch,
                 gustIn, gustOut, resolveIn, equiv,
                 airportString, wait, sinceUpdate, stream>>
  /\ pushed' = TRUE

(***************************************************************************)
(* loop(): the three overlay passes                                        *)
(***************************************************************************)
\* the pass is disabled or its list is empty
BlinkSkip(p) ==
  /\ pc = p
  /\ ~(PassEnabled(p) /\ Len(PassList(p)) > 0)
  /\ pc' = AfterPass(p)
  /\ UNCHANGED <<variant, airports, leds, shown, lightningLeds, highwindLeds,
                 windLeds, isWiFiConnected, ledStatus, loops, originalColors,
                 passStart, delayed, fetchResult, failure, lastPayload,
                 connectedThisTick, ticksSinceFetch, gustIn, gustOut, resolveIn, equiv,
                 airportString, pushed, wait, sinceUpdate, stream, outage>>

\* save, overwrite, FastLED.show(), then hold
BlinkShow(p) ==
  /\ pc = p
  /\ PassEnabled(p) /\ Len(PassList(p)) > 0
  /\ LET r == BlinkApply(leds, <<>>, PassList(p), PassColor(p), PassFade(p))
     IN /\ leds' = r.leds
        /\ originalColors' = r.originalColors
  /\ passStart' = leds
  /\ shown' = leds'
  /\ pc' = Hold(p)
  /\ UNCHANGED <<variant, airports, lightningLeds, highwindLeds, windLeds,
                 isWiFiConnected, ledStatus, loops, delayed, fetchResult, failure,
                 lastPayload, connectedThisTick, ticksSinceFetch, gustIn,
                 gustOut, resolveIn, equiv,
                 airportString, wait, sinceUpdate, stream, outage>>
  /\ pushed' = TRUE

\* restore that is never pushed
BlinkEndNoShow(p) ==
  /\ pc = Hold(p)
  /\ leds' = BlinkRestore(leds, PassList(p), originalColors)
  /\ shown' = shown
  /\ originalColors' = <<>>
  /\ pc' = AfterPass(p)
  /\ UNCHANGED <<variant, airports, lightningLeds, highwindLeds, windLeds,
                 isWiFiConnected, ledStatus, loops, passStart, delayed,
                 fetchResult, failure, lastPayload, connectedThisTick, ticksSinceFetch,
                 gustIn, gustOut, resolveIn, equiv,
                 airportString, pushed, wait, sinceUpdate, stream, outage>>

\* restore, FastLED.show()
BlinkEnd(p) ==
  /\ pc = Hold(p)
  /\ leds' = BlinkRestore(leds, PassList(p), originalColors)
  /\ shown' = leds'
  /\ originalColors' = <<>>
  /\ pc' = AfterPass(p)
  /\ UNCHANGED <<variant, airports, lightningLeds, highwindLeds, windLeds,
                 isWiFiConnected, ledStatus, loops, passStart, delayed,
                 fetchResult, failure, lastPayload, connectedThisTick, ticksSinceFetch,
                 gustIn, gustOut, resolveIn, equiv,
                 airportString, wait, sinceUpdate, stream, outage>>
  /\ pushed' = TRUE

(***************************************************************************)
(* loop(): fetch decision, getMetars(), and the delay that ends the tick   *)
(***************************************************************************)
FetchDue == loops >= loopThreshold \/ loops = 0

Resolver == [leds |-> leds, lightningLeds |-> lightningLeds,
             highwindLeds |-> highwindLeds, windLeds |-> windLeds]

\* a loop() that never takes the long sleep
SleepAfterShort(st) == "LOOP_INTERVAL"

\* the delay loop() takes after getMetars() returned true
SleepAfter(st) ==
  IF \/ (DO_LIGHTNING /\ Len(st.lightningLeds) > 0)
     \/ (DO_WINDS /\ Len(st.windLeds) > 0)
     \/ (DO_WINDS /\ Len(st.highwindLeds) > 0)
  THEN "LOOP_INTERVAL" ELSE "REQUEST_INTERVAL"

SetResolver(st) ==
  /\ leds' = st.leds
  /\ lightningLeds' = st.lightningLeds
  /\ highwindLeds' = st.highwindLeds
  /\ windLeds' = st.windLeds

\* no fetch on this tick
NoFetch ==
  /\ pc = "fetch"
  /\ ~FetchDue
  /\ delayed' = "LOOP_INTERVAL"
  /\ pc' = "loop"
  /\ UNCHANGED <<variant, airports, leds, shown, lightningLeds, highwindLeds,
                 windLeds, isWiFiConnected, ledStatus, loops, originalColors,
                 passStart, fetchResult, failure, lastPayload, connectedThisTick,
                 ticksSinceFetch, gustIn, gustOut, resolveIn, equiv,
                 airportString, pushed, wait, stream, outage>>
  /\ sinceUpdate' = IF sinceUpdate < 0 THEN -1 ELSE sinceUpdate + LOOP_INTERVAL

\* JSON sketch: getMetars() returns true, FastLED.show(), sleep; the body
\* loop ends when the server closes the connection or, with the whole array
\* received, when the read idle timeout breaks it
JsonFetchOk ==
  /\ pc = "fetch" /\ variant = "json" /\ FetchDue
  /\ pc' = "loop"
  /\ fetchResult' = "ok"
  /\ \E idle \in BOOLEAN : failure' = IF idle THEN "body_timeout" ELSE "none"
  /\ \E doc \in JsonDocuments :
       /\ lastPayload' = asJsonArray(doc)
       /\ \E st \in {getMetarsOk(Resolver, asJsonArray(doc))} :
          /\ SetResolver(st)
          /\ shown' = st.leds
          /\ delayed' = SleepAfter(st)
          /\ sinceUpdate' = Millis(SleepAfter(st))
  /\ loops' = 0
  /\ ticksSinceFetch' = 0
  /\ UNCHANGED <<variant, airports, isWiFiConnected, ledStatus,
                 originalColors, passStart, connectedThisTick, gustIn,
                 gustOut, resolveIn, equiv, wait, stream, outage>>
  /\ pushed' = TRUE
  /\ airportString' = AirportString

\* a failed fetch after which loop() is never entered again
JsonFetchFatal ==
  /\ pc = "fetch" /\ variant = "json" /\ FetchDue
  /\ \E kind \in JsonFailures : failure' = kind
  /\ fetchResult' = "fail"
  /\ lastPayload' = <<>>
  /\ SetResolver(getMetarsFail(Resolver))
  /\ loops' = 0
  /\ delayed' = "none"
  /\ ticksSinceFetch' = 0
  /\ pc' = "halted"
  /\ UNCHANGED <<variant, airports, shown, isWiFiConnected, ledStatus,
                 originalColors, passStart, connectedThisTick,
                 gustIn, gustOut, resolveIn, equiv, pushed, wait, stream, outage>>
  /\ airportString' = AirportString
  /\ sinceUpdate' = -1

\* JSON sketch: getMetars() returns false, retry delay
JsonFetchFail ==
  /\ pc = "fetch" /\ variant = "json" /\ FetchDue
  /\ \E kind \in JsonFailures : failure' = kind
  /\ fetchResult' = "fail"
  /\ lastPayload' = <<>>
  /\ SetResolver(getMetarsFail(Resolver))
  /\ loops' = 0
  /\ delayed' = "RETRY_TIMEOUT"
  /\ ticksSinceFetch' = 0
  /\ pc' = "loop"
  /\ UNCHANGED <<variant, airports, shown, isWiFiConnected, ledStatus,
                 originalColors, passStart, connectedThisTick,
                 gustIn, gustOut, resolveIn, equiv, pushed, wait, stream, outage>>
  /\ airportString' = AirportString
  /\ sinceUpdate' = -1

\* XML sketch: getMetars() returns true, FastLED.show(), sleep
XmlFetchOk ==
  /\ pc = "fetch" /\ variant = "xml" /\ FetchDue
  /\ pc' = "loop"
  /\ fetchResult' = "ok"
  /\ failure' = "none"
  /\ \E recs \in XmlPayloads :
       /\ lastPayload' = recs
       /\ \E st \in {getMetarsXmlOk(Resolver, recs)} :
          /\ SetResolver(st)
          /\ shown' = st.leds
          /\ delayed' = SleepAfter(st)
          /\ sinceUpdate' = Millis(SleepAfter(st))
  /\ loops' = 0
  /\ ticksSinceFetch' = 0
  /\ UNCHANGED <<variant, airports, isWiFiConnected, ledStatus,
                 originalColors, passStart, connectedThisTick, gustIn,
                 gustOut, resolveIn, equiv, wait, stream, outage>>
  /\ pushed' = TRUE
  /\ airportString' = AirportString

\* XML sketch: the server connection fails or never comes up
XmlFetchConnectFail ==
  /\ pc = "fetch" /\ variant = "xml" /\ FetchDue
  /\ \E kind \in {"connect", "connect_timeout"} : failure' = kind
  /\ fetchResult' = "fail"
  /\ lastPayload' = <<>>
  /\ SetResolver(XmlEnter(Resolver))
  /\ loops' = 0
  /\ delayed' = "RETRY_TIMEOUT"
  /\ ticksSinceFetch' = 0
  /\ pc' = "loop"
  /\ UNCHANGED <<variant, airports, shown, isWiFiConnected, ledStatus,
                 originalColors, passStart, connectedThisTick,
                 gustIn, gustOut, resolveIn, equiv, pushed, wait, stream, outage>>
  /\ airportString' = AirportString
  /\ sinceUpdate' = -1

\* XML sketch: the read idle timeout fires while the stream is being parsed
XmlFetchTimeout ==
  /\ pc = "fetch" /\ variant = "xml" /\ FetchDue
  /\ pc' = "loop"
  /\ fetchResult' = "fail"
  /\ failure' = "read_timeout"
  /\ \E t \in XmlTimeouts :
       /\ lastPayload' = t.received
       /\ \E st \in {getMetarsXmlTimeout(Resolver, t.recs, t.read)} :
          /\ SetResolver(st)
          /\ shown' = st.leds
  /\ ledStatus' = TRUE
  /\ loops' = 0
  /\ delayed' = "RETRY_TIMEOUT"
  /\ ticksSinceFetch' = 0
  /\ UNCHANGED <<variant, airports, isWiFiConnected, originalColors,
                 passStart, connectedThisTick, gustIn, gustOut, resolveIn, equiv, wait, stream, outage>>
  /\ pushed' = TRUE
  /\ airportString' = AirportString
  /\ sinceUpdate' = -1

Next ==
  \/ LoopBegin
  \/ ConnectOk
  \/ ConnectFail
  \/ \E p \in Passes : BlinkSkip(p)
  \/ \E p \in Passes : BlinkShow(p)
  \/ \E p \in Passes : BlinkEnd(p)
  \/ NoFetch
  \/ JsonFetchOk
  \/ JsonFetchFail
  \/ XmlFetchOk
  \/ XmlFetchConnectFail
  \/ XmlFetchTimeout

Spec == Init /\ [][Next]_vars

\* loop() is called again whenever it returns, every call it makes returns,
\* and wm.autoConnect() does not fail forever
SpecLive == Init /\ [][Next]_vars /\ WF_vars(Next) /\ SF_vars(ConnectOk)

(***************************************************************************)
(* Gust derivation on its own: the raw observation is the input            *)
(***************************************************************************)
Chars(a, b, c) == a \o b \o c

RawPrefixes ==
  { <<>>,
    <<"K", "S", "E", "A", " ">>,
    <<"K", "G", "R", "F", " ">>,
    <<"K", "U", "I", "L", " ", "1", "2", "1", "8", "5", "3", "Z", " ">> }

RawWinds ==
  { <<"3", "5", "0", "0", "3", "G", "1", "5", "K", "T">>,
    RawGust30,
    <<"V", "R", "B", "0", "5", "G", "1", "1", "0", "K", "T">>,
    <<"2", "7", "0", "1", "5", "K", "T">> }

RawSuffixes ==
  { <<>>,
    <<" ", "1", "0", "S", "M">>,
    <<" ", "R", "M", "K", " ", "L", "T", "G">>,
    <<" ", "B", "K", "N", "0", "4", "0">> }

RawTexts == {Chars(a, b, c) : a \in RawPrefixes, b \in RawWinds, c \in RawSuffixes}

InitGust ==
  /\ InitCommon
  /\ outage = 0
  /\ variant = "json"
  /\ gustIn \in RawTexts
  /\ gustOut = -1
  /\ resolveIn = NoCall
  /\ equiv = NoRun
  /\ airportString = <<>>
  /\ pushed = FALSE
  /\ wait = NoWait
  /\ sinceUpdate = -1
  /\ stream = NoStream

\* the rawOb scan of getMetars() on gustIn
DeriveGust ==
  /\ gustOut = -1
  /\ gustOut' = GustFromRaw(gustIn)
  /\ UNCHANGED tickVars
  /\ UNCHANGED <<gustIn, resolveIn, equiv,
                 airportString, pushed, wait, sinceUpdate, stream>>

NextGust == DeriveGust

SpecGust == InitGust /\ [][NextGust]_vars

(***************************************************************************)
(* Properties                                                              *)
(***************************************************************************)
InList(i, list) == \E k \in 1..Len(list) : list[k] = i

FetchStep == pc = "fetch" /\ FetchDue /\ pc' = "loop"

JustFetchedOk == pc = "loop" /\ fetchResult = "ok" /\ ticksSinceFetch = 0

\* C1: in the JSON variant the five legend slots keep the colors set by
\* setup() (green, blue, red, magenta, yellow) in every reachable state.
C1_LegendFixed ==
  variant = "json" =>
    /\ leds[0] = Green
    /\ leds[1] = Blue
    /\ leds[2] = Red
    /\ leds[3] = Magenta
    /\ leds[4] = Yellow

\* a successful cycle has resolved a record whose identifier is a legend name
C1_Witness ==
  /\ variant = "json"
  /\ JustFetchedOk
  /\ \E k \in 1..Len(lastPayload) : MetarData(lastPayload[k]).icaoId = "VFR"

\* C2: in the JSON variant a getMetars() call that returns false leaves the
\* color of every slot as it was, and loop() then delays RETRY_TIMEOUT.
C2_FailKeepsColors ==
  [][(variant = "json" /\ FetchStep /\ fetchResult' = "fail")
       => (leds' = leds /\ delayed' = "RETRY_TIMEOUT")]_vars

\* a failed fetch with weather colors of an earlier cycle still in the store
C2_Witness ==
  /\ variant = "json"
  /\ pc = "loop"
  /\ failure \in JsonFailures
  /\ ticksSinceFetch = 0
  /\ delayed = "RETRY_TIMEOUT"
  /\ \E i \in Slots : i >= LEGEND /\ leds[i] \in {Red, Green, Blue, Magenta}

\* C3 as stated: in the XML variant a read timeout in mid-document leaves the
\* colors of the previous successful cycle in the store and on the display,
\* and the tick ends in the retry delay.
C3_Original ==
  [][(variant = "xml" /\ FetchStep /\ fetchResult = "ok"
        /\ failure' = "read_timeout")
       => (leds' = leds /\ shown' = shown /\ delayed' = "RETRY_TIMEOUT")]_vars

\* C3 amended: in the XML variant a read timeout in mid-document sets every
\* slot of the store and of the display to the cyan status color, and the
\* tick ends in the retry delay.
C3_TimeoutShowsCyan ==
  [][(variant = "xml" /\ FetchStep /\ failure' = "read_timeout")
       => /\ \A i \in Slots : leds'[i] = Cyan
          /\ shown' = leds'
          /\ delayed' = "RETRY_TIMEOUT"]_vars

\* a read timeout after at least one record of the stream was resolved
C3_Witness ==
  /\ variant = "xml"
  /\ pc = "loop"
  /\ failure = "read_timeout"
  /\ ticksSinceFetch = 0
  /\ Len(lastPayload) > 0
  /\ Len(lightningLeds) > 0

\* C4 as stated: a failed fetch attempt leaves the three hazard index sets
\* with the contents of the last successful cycle.
C4_HazardSetsKept ==
  [][(FetchStep /\ fetchResult' = "fail")
       => /\ lightningLeds' = lightningLeds
          /\ highwindLeds' = highwindLeds
          /\ windLeds' = windLeds]_vars

\* C5 as stated: after a failed fetch the next attempt comes before a full
\* fetch interval of ticks has passed.
C5_RetrySoon ==
  (pc = "fetch" /\ FetchDue /\ fetchResult = "fail")
    => ticksSinceFetch < loopThreshold

\* C6 as stated: at the fetch decision a fetch is attempted exactly when this
\* is the tick on which the device connected or the tick counter has reached
\* the fetch interval.
C6_FetchOnFirstConnectedTick ==
  pc = "fetch" => (FetchDue <=> (connectedThisTick \/ loops >= loopThreshold))

\* C7 as stated: when an overlay pass ends, the color of every slot in the
\* store equals its color when the pass began.
C7_PassRestoresStore ==
  [][(\E p \in Passes : pc = Hold(p) /\ pc' = AfterPass(p))
       => leds' = passStart]_vars

\* C8 as stated: no slot index is in both highwindLeds and windLeds.
C8_WindTiersDisjoint ==
  \A i \in Slots : ~(InList(i, highwindLeds) /\ InList(i, windLeds))

\* the state the JSON resolver derives from one array element alone
AloneState(o) ==
  getMetarsOk([leds |-> SetupLeds(NUM_AIRPORTS), lightningLeds |-> <<>>,
               highwindLeds |-> <<>>, windLeds |-> <<>>], <<o>>)

\* the last element of the array that resolves to slot i (0 if none)
LastFor(array, i) ==
  LET ks == {k \in 1..Len(array) : MetarData(array[k]).icaoId = airports[i + 1]}
  IN IF ks = {} THEN 0 ELSE CHOOSE k \in ks : \A j \in ks : j <= k

\* C9 as stated: after a successful cycle of the JSON variant, a weather slot
\* that some record resolves to has the base color and the membership in each
\* hazard set that the last such record alone gives it.
C9_LastRecordWins ==
  (variant = "json" /\ JustFetchedOk) =>
    \A i \in Slots :
      (i >= LEGEND /\ LastFor(lastPayload, i) # 0) =>
        LET a == AloneState(lastPayload[LastFor(lastPayload, i)])
        IN /\ leds[i] = a.leds[i]
           /\ InList(i, lightningLeds) <=> InList(i, a.lightningLeds)
           /\ InList(i, highwindLeds) <=> InList(i, a.highwindLeds)
           /\ InList(i, windLeds) <=> InList(i, a.windLeds)

\* a gust token starts at 0-based position i of s: G, 2-3 digits, KT
GustTokenAt(s, i) ==
  LET ds == DigitRun(s, i + 1)
  IN /\ i < Len(s) /\ s[i + 1] = "G"
     /\ Len(ds) \in {2, 3}
     /\ SubSeq(s, i + 2 + Len(ds), i + 3 + Len(ds)) = <<"K", "T">>

\* C10 as stated: for every raw observation with a gust token the derived
\* gust is the number formed by the digits after the token's G.
C10_GustFromToken ==
  gustOut # -1 =>
    \A i \in 0..(Len(gustIn) - 1) :
      GustTokenAt(gustIn, i) => gustOut = DecimalValue(DigitRun(gustIn, i + 1))

(***************************************************************************)
(* doColor() on its own: one call on the store left by setup()             *)
(***************************************************************************)
Conditions == {"LIFR", "IFR", "MVFR", "VFR", "", "UNKN"}
Categories == {"LIFR", "IFR", "MVFR", "VFR"}
WxTexts == {NoText, <<"-", "T", "S", "R", "A">>, <<"L", "T", "G">>}
RawObs == {NoText, <<"R", "M", "K", " ", "L", "T", "G">>, <<"L", "T", "N", "G">>,
           <<"T", "S">>}

\* a legend index of the JSON board and a weather index of either board
CallSlots == {0, 6}

DoColorCalls ==
  [led : CallSlots, wind : 0..MaxWind, gusts : 0..MaxWind,
   condition : Conditions, wxstring : WxTexts, currentRawText : RawObs]

InitResolve ==
  /\ InitCommon
  /\ outage = 0
  /\ gustIn = <<>>
  /\ gustOut = -1
  /\ resolveIn \in DoColorCalls
  /\ equiv = NoRun
  /\ airportString = <<>>
  /\ pushed = FALSE
  /\ wait = NoWait
  /\ sinceUpdate = -1
  /\ stream = NoStream

\* one doColor() call with the arguments of resolveIn
ResolveOne ==
  /\ pc = "loop"
  /\ LET c == resolveIn
         id == airports[c.led + 1]
     IN SetResolver(IF variant = "json"
                    THEN doColor(Resolver, id, c.led, c.wind, c.gusts,
                                 c.condition, c.wxstring, c.currentRawText)
                    ELSE doColorXml(Resolver, id, c.led, c.wind, c.gusts,
                                    c.condition, c.wxstring, c.currentRawText))
  /\ pc' = "resolved"
  /\ UNCHANGED <<variant, airports, shown, isWiFiConnected, ledStatus, loops,
                 originalColors, passStart, delayed, fetchResult, failure,
                 lastPayload, connectedThisTick, ticksSinceFetch, gustIn,
                 gustOut, resolveIn, equiv,
                 airportString, pushed, wait, sinceUpdate, stream, outage>>

NextResolve == ResolveOne

SpecResolve == InitResolve /\ [][NextResolve]_vars

\* the call of resolveIn has been made on a slot that doColor() colors
Resolved ==
  /\ pc = "resolved"
  /\ (variant = "json" => resolveIn.led >= LEGEND)

MaxOf(a, b) == IF a >= b THEN a ELSE b

\* C11: after doColor() the slot is in highwindLeds exactly when
\* max(wind, gusts) > HIGH_WIND_THRESHOLD, in windLeds exactly when
\* WIND_THRESHOLD < max(wind, gusts) <= HIGH_WIND_THRESHOLD, and so never in both.
C11_WindTiers ==
  Resolved =>
    LET m == MaxOf(resolveIn.wind, resolveIn.gusts)
        led == resolveIn.led
    IN /\ InList(led, highwindLeds) <=> (m > HIGH_WIND_THRESHOLD)
       /\ InList(led, windLeds) <=> (WIND_THRESHOLD < m /\ m <= HIGH_WIND_THRESHOLD)

\* a call whose larger value equals the high threshold and lands in windLeds
C11_Witness ==
  /\ Resolved
  /\ MaxOf(resolveIn.wind, resolveIn.gusts) = HIGH_WIND_THRESHOLD
  /\ InList(resolveIn.led, windLeds)
  /\ ~InList(resolveIn.led, highwindLeds)

CategoryColor(f) ==
  CASE f = "LIFR" -> Magenta [] f = "IFR" -> Red
    [] f = "MVFR" -> Blue [] f = "VFR" -> Green

\* C12: for a category in {LIFR, IFR, MVFR, VFR} the color doColor() writes
\* to a non-legend slot is magenta, red, blue, green, whatever the wind,
\* gust, hazard text and raw observation are.
C12_CategoryColor ==
  (Resolved /\ resolveIn.condition \in Categories) =>
    leds[resolveIn.led] = CategoryColor(resolveIn.condition)

\* an IFR call that also carries very high wind and lightning
C12_Witness ==
  /\ Resolved
  /\ resolveIn.condition = "IFR"
  /\ leds[resolveIn.led] = Red
  /\ InList(resolveIn.led, highwindLeds)
  /\ InList(resolveIn.led, lightningLeds)

DimNeutral == <<26, 26, 26>>

NoCategorySignal ==
  \/ resolveIn.wind > 0
  \/ resolveIn.gusts > 0
  \/ InList(resolveIn.led, lightningLeds)

\* C13 as stated: in either sketch a call without a recognized category
\* writes the dim neutral color if wind > 0, gusts > 0 or lightning holds,
\* and black otherwise.
C13_Original ==
  (Resolved /\ resolveIn.condition \notin Categories) =>
    leds[resolveIn.led] = (IF NoCategorySignal THEN DimNeutral ELSE Black)

(***************************************************************************)
(* Both sketches on the same slot list and the same per-airport data       *)
(***************************************************************************)
DigitChar(d) ==
  CASE d = 0 -> "0" [] d = 1 -> "1" [] d = 2 -> "2" [] d = 3 -> "3"
    [] d = 4 -> "4" [] d = 5 -> "5" [] d = 6 -> "6" [] d = 7 -> "7"
    [] d = 8 -> "8" [] d = 9 -> "9"

\* the decimal digits of a natural number
RECURSIVE Decimal(_)
Decimal(n) ==
  IF n < 10 THEN <<DigitChar(n)>>
  ELSE Append(Decimal(n \div 10), DigitChar(n % 10))

\* per-airport data: gust 0 stands for "no gust reported"; the raw
\* observation carries the gust token exactly when a gust is reported
AirportData ==
  { [id |-> "KUIL", cat |-> "VFR", wind |-> 0, gust |-> 0, wx |-> NoText, raw |-> NoText],
    [id |-> "KUIL", cat |-> "IFR", wind |-> 12, gust |-> 30, wx |-> TS_STR, raw |-> RawGust30],
    [id |-> "KHQM", cat |-> "MVFR", wind |-> 20, gust |-> 0, wx |-> NoText, raw |-> NoText],
    [id |-> "KHQM", cat |-> "", wind |-> 5, gust |-> 0, wx |-> NoText, raw |-> NoText],
    [id |-> "KHQM", cat |-> "LIFR", wind |-> 0, gust |-> 0, wx |-> NoText, raw |-> RawLtg],
    [id |-> "KGLS", cat |-> "IFR", wind |-> 30, gust |-> 0, wx |-> NoText, raw |-> NoText],
    [id |-> "KXXX", cat |-> "IFR", wind |-> 30, gust |-> 0, wx |-> NoText, raw |-> NoText] }

\* the array element of the JSON service for one airport
JsonOf(a) ==
  [icaoId |-> a.id, fltCat |-> a.cat, wspd |-> a.wind, wxString |-> a.wx,
   rawOb |-> a.raw]

\* the METAR element of the XML service for one airport
XmlOf(a) ==
  [station_id |-> a.id, flight_category |-> a.cat,
   wind_speed_kt |-> Decimal(a.wind),
   wind_gust_kt |-> IF a.gust = 0 THEN <<>> ELSE Decimal(a.gust),
   wx_string |-> a.wx, raw_text |-> a.raw]

\* the record the JSON sketch hands to its match loop
JsonRecord(o) ==
  LET m == MetarData(o)
  IN [id |-> m.icaoId, cat |-> m.fltCat, wind |-> m.wspd, gust |-> m.wgst,
      wx |-> m.wxString, raw |-> m.rawOb]

\* the record the XML sketch hands to doColor() at a flush
XmlRecord(f) ==
  [id |-> f.station_id, cat |-> f.flight_category,
   wind |-> toInt(f.wind_speed_kt), gust |-> toInt(f.wind_gust_kt),
   wx |-> f.wx_string, raw |-> f.raw_text]

\* the records of a parsed body: the locals at every flush after the first
\* <raw_text> and at the end of the stream
XmlRecordsOf(p) ==
  LET flushes == SelectSeq(p.events, LAMBDA e : e.kind = "flush")
  IN [k \in 1..(Len(flushes) - 1) |-> XmlRecord(flushes[k + 1].fields)]
       \o (IF flushes = <<>> THEN <<>> ELSE <<XmlRecord(Fields(p))>>)

InitEquiv ==
  /\ variant = "json"
  /\ airports \in JsonConfigs \cup XmlConfigs
  /\ leds = SetupLeds(Len(airports))
  /\ shown = leds
  /\ lightningLeds = <<>>
  /\ highwindLeds = <<>>
  /\ windLeds = <<>>
  /\ isWiFiConnected = TRUE
  /\ ledStatus = FALSE
  /\ loops = 0
  /\ pc = "fetch"
  /\ originalColors = <<>>
  /\ passStart = leds
  /\ delayed = "none"
  /\ fetchResult = "none"
  /\ failure = "none"
  /\ lastPayload = <<>>
  /\ connectedThisTick = FALSE
  /\ ticksSinceFetch = 0
  /\ outage = 0
  /\ gustIn = <<>>
  /\ gustOut = -1
  /\ resolveIn = NoCall
  /\ airportString = <<>>
  /\ pushed = FALSE
  /\ wait = NoWait
  /\ sinceUpdate = -1
  /\ stream = NoStream
  /\ equiv \in {[stage |-> "start", payload |-> q] :
                  q \in SeqsUpTo(AirportData, MaxRecords)}

\* getMetars() of the JSON sketch on the payload; then the board is handed
\* to the XML sketch in the state its setup() leaves
EquivJson ==
  /\ equiv.stage = "start"
  /\ LET array == [k \in 1..Len(equiv.payload) |-> JsonOf(equiv.payload[k])]
     IN equiv' = [stage |-> "json", payload |-> equiv.payload,
                  records |-> [k \in 1..Len(array) |-> JsonRecord(array[k])],
                  st |-> getMetarsOk(Resolver, array)]
  /\ variant' = "xml"
  /\ leds' = fill_solid(NUM_AIRPORTS, Black)
  /\ airportString' = AirportString
  /\ UNCHANGED <<airports, shown, lightningLeds, highwindLeds, windLeds,
                 isWiFiConnected, ledStatus, loops, pc, originalColors,
                 passStart, delayed, fetchResult, failure, lastPayload,
                 connectedThisTick, ticksSinceFetch, gustIn, gustOut,
                 resolveIn, pushed, wait, sinceUpdate, stream, outage>>

\* getMetars() of the XML sketch on the same payload
EquivXml ==
  /\ equiv.stage = "json"
  /\ LET recs == [k \in 1..Len(equiv.payload) |-> XmlOf(equiv.payload[k])]
     IN /\ SetResolver(getMetarsXmlOk(Resolver, recs))
        /\ equiv' = [stage |-> "xml", payload |-> equiv.payload,
                     records |-> equiv.records, st |-> equiv.st,
                     xmlRecords |-> XmlRecordsOf(XmlParseOf(recs))]
  /\ airportString' = AirportString
  /\ UNCHANGED <<variant, airports, shown, isWiFiConnected, ledStatus, loops,
                 pc, originalColors, passStart, delayed, fetchResult, failure,
                 lastPayload, connectedThisTick, ticksSinceFetch, gustIn,
                 gustOut, resolveIn, pushed, wait, sinceUpdate, stream, outage>>

NextEquiv == EquivJson \/ EquivXml

SpecEquiv == InitEquiv /\ [][NextEquiv]_vars

\* C14 as stated: on the same slot list and the same per-airport data the
\* XML sketch and the JSON sketch produce the same records, the same colors
\* on the slots past the legend and the same three hazard lists.
C14_VariantsEquivalent ==
  equiv.stage = "xml" =>
    /\ equiv.xmlRecords = equiv.records
    /\ \A i \in Slots : i >= LEGEND => leds[i] = equiv.st.leds[i]
    /\ lightningLeds = equiv.st.lightningLeds
    /\ highwindLeds = equiv.st.highwindLeds
    /\ windLeds = equiv.st.windLeds

\* slot i is not one of the legend slots of the board
NonLegend(i) ==
  IF variant = "json" THEN i >= LEGEND
  ELSE airports[i + 1] \notin {"VFR", "MVFR", "IFR", "LIFR"}

InNoHazardList(i) ==
  /\ ~InList(i, lightningLeds)
  /\ ~InList(i, highwindLeds)
  /\ ~InList(i, windLeds)

\* the identifiers of the records of the last successful cycle
PayloadIds ==
  IF variant = "json"
  THEN {MetarData(lastPayload[k]).icaoId : k \in 1..Len(lastPayload)}
  ELSE {lastPayload[k].station_id : k \in 1..Len(lastPayload)}

\* C15 as stated: after a successful fetch cycle every slot configured as
\* "NULL" is black and in none of the three hazard lists, whatever the
\* identifiers of the records are.
C15_GapSlotsUnmatched ==
  JustFetchedOk =>
    \A i \in Slots :
      airports[i + 1] = "NULL" => (leds[i] = Black /\ InNoHazardList(i))

Matched(o) == MatchingLeds(MetarData(o).icaoId) # <<>>

\* C16: in the JSON variant the records whose identifier is configured at no
\* slot change nothing: a successful cycle leaves the store and the three
\* lists exactly as the cycle on the matched records alone leaves them.
C16_UnmatchedIgnored ==
  (variant = "json" /\ JustFetchedOk) =>
    Resolver = getMetarsOk(Resolver,
                           SelectSeq(lastPayload, LAMBDA o : Matched(o)))

\* a cycle whose first record has an empty identifier and whose second
\* record colored a slot
C16_Witness ==
  /\ variant = "json"
  /\ JustFetchedOk
  /\ Len(lastPayload) = 2
  /\ MetarData(lastPayload[1]).icaoId = ""
  /\ Matched(lastPayload[2])
  /\ \E i \in Slots : i >= LEGEND /\ leds[i] # Black /\ InList(i, lightningLeds)

SameHazardLists(i, j) ==
  /\ InList(i, lightningLeds) <=> InList(j, lightningLeds)
  /\ InList(i, highwindLeds) <=> InList(j, highwindLeds)
  /\ InList(i, windLeds) <=> InList(j, windLeds)

\* C17: after a successful cycle two non-legend slots that carry the same
\* code have the same color and the same membership in each hazard list.
C17_SameCodeSameState ==
  JustFetchedOk =>
    \A i, j \in Slots :
      (NonLegend(i) /\ NonLegend(j) /\ airports[i + 1] = airports[j + 1]) =>
        (leds[i] = leds[j] /\ SameHazardLists(i, j))

\* an airport at two slots, both colored and both in the lightning list
C17_Witness ==
  /\ JustFetchedOk
  /\ \E i, j \in Slots :
       /\ i < j /\ NonLegend(i) /\ NonLegend(j)
       /\ airports[i + 1] = airports[j + 1] /\ airports[i + 1] # "NULL"
       /\ leds[i] # Black /\ leds[j] = leds[i]
       /\ InList(i, lightningLeds) /\ InList(j, lightningLeds)

\* C18: a second successful cycle on the payload of the cycle just finished
\* gives the same store and the same three lists, element by element.
C18_Idempotent ==
  JustFetchedOk =>
    Resolver = (IF variant = "json" THEN getMetarsOk(Resolver, lastPayload)
                ELSE getMetarsXmlOk(Resolver, lastPayload))

\* a finished cycle that filled a lightning list and a wind list
C18_Witness ==
  /\ JustFetchedOk
  /\ Len(lightningLeds) > 0
  /\ Len(highwindLeds) + Len(windLeds) > 0

\* C19: after a successful cycle every non-legend slot whose code is the
\* identifier of no record of the payload is black and in no hazard list.
C19_AbsentIsBlack ==
  JustFetchedOk =>
    \A i \in Slots :
      (NonLegend(i) /\ airports[i + 1] \notin PayloadIds) =>
        (leds[i] = Black /\ InNoHazardList(i))

\* a cycle that colored one airport and left another airport without record
C19_Witness ==
  /\ JustFetchedOk
  /\ \E i, j \in Slots :
       /\ NonLegend(i) /\ NonLegend(j)
       /\ airports[i + 1] \in PayloadIds /\ leds[i] # Black
       /\ airports[j + 1] # "NULL" /\ airports[j + 1] \notin PayloadIds
       /\ leds[j] = Black

\* C20 as stated: a fetch that fails because the server connection cannot be
\* established leaves isWiFiConnected false.
C20_ConnectErrorDisconnects ==
  [][(FetchStep /\ failure' = "connect") => ~isWiFiConnected']_vars

BodyTimeouts == {"read_timeout", "body_timeout"}

\* C21 as stated: a read idle timeout while the body is being read makes the
\* fetch fail, leaves the three hazard lists empty and no slot with a color
\* derived from the data received, and is followed by the retry delay.
C21_BodyTimeoutFails ==
  [][(FetchStep /\ failure' \in BodyTimeouts)
       => /\ fetchResult' = "fail"
          /\ delayed' = "RETRY_TIMEOUT"
          /\ lightningLeds' = <<>> /\ highwindLeds' = <<>> /\ windLeds' = <<>>
          /\ \A i \in Slots : leds'[i] \in {leds[i], Black, Cyan}]_vars

C23_PassOrder ==
  [][/\ pc = "lightning" => pc' \in {"lightning_hold", "highwind"}
     /\ pc = "lightning_hold" => pc' = "highwind"
     /\ pc = "highwind" => pc' \in {"highwind_hold", "wind"}
     /\ pc = "highwind_hold" => pc' = "wind"
     /\ pc = "wind" => pc' \in {"wind_hold", "fetch"}
     /\ pc = "wind_hold" => pc' = "fetch"
     /\ pc' = "lightning" => pc \in {"loop", "connect"}
     /\ pc' = "fetch" => pc \in {"wind", "wind_hold"} /\ originalColors' = <<>>
     /\ pc' = "lightning_hold"
          => lightningLeds # <<>> /\ originalColors = <<>>
             /\ Len(originalColors') = Len(lightningLeds)
     /\ pc' = "highwind_hold"
          => highwindLeds # <<>> /\ originalColors = <<>>
             /\ Len(originalColors') = Len(highwindLeds)
     /\ pc' = "wind_hold"
          => windLeds # <<>> /\ originalColors = <<>>
             /\ Len(originalColors') = Len(windLeds)
     /\ pc \in {"lightning_hold", "highwind_hold", "wind_hold"}
          => originalColors' = <<>> /\ shown' = leds']_vars

\* the fetch decision of a tick in which all three passes ran
C23_Witness ==
  /\ pc = "fetch"
  /\ lightningLeds # <<>> /\ highwindLeds # <<>> /\ windLeds # <<>>
  /\ originalColors = <<>>

\* C24: a tick whose WiFi connect attempt fails leaves every non-legend slot
\* orange (stored and shown), leaves the device disconnected and returns: no
\* overlay pass runs and getMetars() is not called in that tick.
C24_ConnectFailTick ==
  [][(pc = "connect" /\ ~isWiFiConnected')
       => /\ \A i \in Slots : NonLegend(i) => leds'[i] = Orange /\ shown'[i] = Orange
          /\ pc' = "loop"
          /\ originalColors' = <<>> /\ passStart' = passStart
          /\ lightningLeds' = lightningLeds /\ highwindLeds' = highwindLeds
          /\ windLeds' = windLeds
          /\ fetchResult' = fetchResult /\ ticksSinceFetch' = ticksSinceFetch
          /\ lastPayload' = <<>> /\ failure' = "none"]_vars

\* the end of a tick whose connect attempt failed
C24_Witness ==
  /\ pc = "loop" /\ ~isWiFiConnected /\ ledStatus /\ loops > 0
  /\ delayed = "none"
  /\ \A i \in Slots : NonLegend(i) => leds[i] = Orange

AllStatus(l, color) == \A i \in Slots : NonLegend(i) => l[i] = color

\* C25: a tick that starts disconnected turns every non-legend slot orange
\* before the connect attempt; the step on which the connect succeeds turns
\* them purple; while the device is connected no step that changes the store
\* leaves all of them purple again.
C25_StatusIndication ==
  [][/\ (pc = "loop" /\ ~isWiFiConnected)
          => pc' = "connect" /\ AllStatus(leds', Orange) /\ AllStatus(shown', Orange)
     /\ (pc = "connect" /\ isWiFiConnected')
          => AllStatus(leds', Purple) /\ AllStatus(shown', Purple)
     /\ (isWiFiConnected /\ leds' # leds) => ~AllStatus(leds', Purple)]_vars

\* the passes of the tick on which the connect succeeded, under purple
C25_Witness ==
  /\ pc = "lightning" /\ connectedThisTick /\ isWiFiConnected
  /\ AllStatus(leds, Purple)
  /\ ~ledStatus

\* a getMetars() call has just written its request to the server
RequestSent ==
  pc = "loop" /\ ticksSinceFetch = 0 /\ fetchResult # "none" /\ failure # "connect"

Requested(i) == NonLegend(i) /\ airports[i + 1] # "NULL"

\* the identifiers of the requested slots from slot i on, in slot order
RECURSIVE RequestedFrom(_)
RequestedFrom(i) ==
  IF i >= NUM_AIRPORTS THEN <<>>
  ELSE (IF Requested(i) THEN <<Spell(airports[i + 1])>> ELSE <<>>)
         \o RequestedFrom(i + 1)

FirstComma(str) ==
  IF \E k \in 1..Len(str) : str[k] = ","
  THEN CHOOSE k \in 1..Len(str) : str[k] = "," /\ \A j \in 1..(k - 1) : str[j] # ","
  ELSE 0

\* the fields of a comma-separated text; a leading, trailing or doubled comma
\* gives an empty field
RECURSIVE CommaFields(_)
CommaFields(str) ==
  IF str = <<>> THEN <<>>
  ELSE LET k == FirstComma(str)
       IN IF k = 0 THEN <<str>>
          ELSE IF k = Len(str) THEN <<SubSeq(str, 1, k - 1), <<>>>>
          ELSE <<SubSeq(str, 1, k - 1)>> \o CommaFields(SubSeq(str, k + 1, Len(str)))

\* C26: the airport list of a request is the identifiers of the slots that are
\* neither legend slots nor "NULL" gaps, in slot order, separated by single
\* commas, with no empty field.
C26_AirportList ==
  RequestSent =>
    /\ CommaFields(airportString) = RequestedFrom(0)
    /\ \A k \in 1..Len(CommaFields(airportString)) :
         CommaFields(airportString)[k] # <<>>

\* a request for a board with legend slots, gaps and several airports
C26_Witness ==
  /\ RequestSent
  /\ variant = "json"
  /\ \E i \in Slots : i >= LEGEND /\ airports[i + 1] = "NULL"
  /\ Len(CommaFields(airportString)) >= 3

NonLegendIndices(list) ==
  \A k \in 1..Len(list) : list[k] \in LEGEND..(NUM_AIRPORTS - 1)

\* C27: in the JSON variant every index in lightningLeds, highwindLeds and
\* windLeds is in 5..NUM_AIRPORTS-1, and while a pass holds its overlay the
\* legend slots are as they were when the pass began.
C27_NoLegendHazard ==
  variant = "json" =>
    /\ NonLegendIndices(lightningLeds)
    /\ NonLegendIndices(highwindLeds)
    /\ NonLegendIndices(windLeds)
    /\ pc \in {"lightning_hold", "highwind_hold", "wind_hold"}
         => \A i \in 0..(LEGEND - 1) : leds[i] = passStart[i] /\ shown[i] = passStart[i]

\* a cycle that carried a record named like a legend slot, with thunderstorm
\* and severe wind, next to records that filled the hazard lists
C27_Witness ==
  /\ variant = "json"
  /\ JustFetchedOk
  /\ \E k \in 1..Len(lastPayload) :
       LET m == MetarData(lastPayload[k])
       IN m.icaoId \in {"VFR", "MVFR", "IFR", "LIFR", "WVFR"}
          /\ m.wspd > HIGH_WIND_THRESHOLD
          /\ HasLightning(m.wxString, m.rawOb)
  /\ lightningLeds # <<>>
  /\ highwindLeds # <<>>

\* doColor() on the matched slots of each record, one record after the other
RECURSIVE ResolveEach(_, _)
ResolveEach(st, recs) ==
  IF recs = <<>> THEN st
  ELSE ResolveEach(ColorMatchedXml(st, Head(recs), MatchingLeds(Head(recs).station_id)),
                   Tail(recs))

\* the number of characters read when the <raw_text> tag of record k is complete
RawTextMark(recs, k) ==
  Len(XmlDocument(SubSeq(recs, 1, k - 1))) + Len(<<"<", "M", "E", "T", "A", "R", ">">>)
    + Len(RAW_TEXT_TAG)

FlushesOf(p) == SelectSeq(p.events, LAMBDA e : e.kind = "flush")

\* C28: for an XML stream of records r1..rn that ends normally, the flush at
\* the <raw_text> tag of r(i+1) hands doColor() the fields of ri, the locals
\* left at the end of the stream are those of rn, and the state getMetars()
\* leaves is that of resolving r1..rn once each in stream order, followed by
\* the key slots.
C28_FlushOrder ==
  (variant = "xml" /\ JustFetchedOk /\ Len(lastPayload) >= 1) =>
    LET recs == lastPayload
        n == Len(recs)
        p == XmlParseOf(recs)
        flushes == FlushesOf(p)
    IN /\ Len(flushes) = n
       /\ \A i \in 1..n : flushes[i].at = RawTextMark(recs, i)
       /\ \A i \in 1..(n - 1) : flushes[i + 1].fields = recs[i]
       /\ Fields(p) = recs[n]
       /\ p.read = Len(XmlDocument(recs))
       /\ Resolver = KeyLeds(ResolveEach(XmlEnter(Resolver), recs))

\* a stream of two records for different airports, both on the board and both
\* with a lightning hazard
C28_Witness ==
  /\ variant = "xml" /\ JustFetchedOk
  /\ Len(lastPayload) >= 2
  /\ lastPayload[1].station_id # lastPayload[2].station_id
  /\ \E i, j \in Slots :
       /\ airports[i + 1] = lastPayload[1].station_id
       /\ airports[j + 1] = lastPayload[2].station_id
       /\ InList(i, lightningLeds) /\ InList(j, lightningLeds)
       /\ leds[i] # Black /\ leds[j] # Black

\* record k of the last cycle carries none of wind speed, gust source,
\* flight category and hazard text
Bare(k) ==
  IF variant = "json"
  THEN \A key \in {"wspd", "rawOb", "fltCat", "wxString"} : ~HasKey(lastPayload[k], key)
  ELSE /\ lastPayload[k].wind_speed_kt = <<>>
       /\ lastPayload[k].wind_gust_kt = <<>>
       /\ lastPayload[k].flight_category = ""
       /\ lastPayload[k].wx_string = <<>>

\* the records handed to doColor() in the last cycle
HandedOver ==
  IF variant = "json"
  THEN [k \in 1..Len(lastPayload) |-> JsonRecord(lastPayload[k])]
  ELSE XmlRecordsOf(XmlParseOf(lastPayload))

IdOf(k) ==
  IF variant = "json" THEN MetarData(lastPayload[k]).icaoId
  ELSE lastPayload[k].station_id

\* C29: in a cycle that succeeded, every field a record does not carry is
\* handed to doColor() as 0 (wind, gust) or as the empty text (category,
\* hazard text), whatever the record before it carried; a record that carries
\* none of them leaves its slots black and, when no other record names the
\* same airport, in no hazard list.
C29_MissingFieldsDefault ==
  JustFetchedOk =>
    /\ Len(HandedOver) = Len(lastPayload)
    /\ \A k \in 1..Len(lastPayload) :
         LET r == HandedOver[k]
         IN /\ IF variant = "json"
               THEN /\ ~HasKey(lastPayload[k], "wspd") => r.wind = 0
                    /\ ~HasKey(lastPayload[k], "rawOb") => r.gust = 0
                    /\ ~HasKey(lastPayload[k], "fltCat") => r.cat = ""
                    /\ ~HasKey(lastPayload[k], "wxString") => r.wx = <<>>
               ELSE /\ lastPayload[k].wind_speed_kt = <<>> => r.wind = 0
                    /\ lastPayload[k].wind_gust_kt = <<>> => r.gust = 0
                    /\ lastPayload[k].flight_category = "" => r.cat = ""
                    /\ lastPayload[k].wx_string = <<>> => r.wx = <<>>
            /\ Bare(k) =>
                 \A i \in Slots :
                   (NonLegend(i) /\ airports[i + 1] = IdOf(k))
                     => /\ (\A j \in (k + 1)..Len(lastPayload) : IdOf(j) # IdOf(k))
                             => leds[i] = Black
                        /\ (\A j \in 1..Len(lastPayload) : j # k => IdOf(j) # IdOf(k))
                             => InNoHazardList(i)

\* a record without any of the fields, on the board, right after a record
\* for another airport with a category, severe wind and lightning
C29_Witness ==
  /\ JustFetchedOk /\ variant = "xml"
  /\ Len(lastPayload) = 2
  /\ Bare(2)
  /\ IdOf(1) # IdOf(2)
  /\ HandedOver[1].wind > HIGH_WIND_THRESHOLD
  /\ HandedOver[1].cat = "IFR"
  /\ lightningLeds # <<>>
  /\ \E i \in Slots : airports[i + 1] = IdOf(2) /\ leds[i] = Black /\ InNoHazardList(i)

\* pat occurs in text
Contains(text, pat) ==
  \E i \in 1..(Len(text) - Len(pat) + 1) :
    \A j \in 1..Len(pat) : text[i + j - 1] = pat[j]

\* C30: doColor() puts the slot in lightningLeds exactly when the hazard text
\* contains "TS" or the raw observation contains "LTG" or "LTNG", whatever
\* the category and the wind; in the JSON sketch a call with category IFR,
\* wind 30, empty hazard text and "LTG" in the raw observation leaves the
\* slot red, in lightningLeds and highwindLeds, and not in windLeds.
C30_LightningAxis ==
  Resolved =>
    /\ InList(resolveIn.led, lightningLeds)
         <=> \/ Contains(resolveIn.wxstring, <<"T", "S">>)
             \/ Contains(resolveIn.currentRawText, <<"L", "T", "G">>)
             \/ Contains(resolveIn.currentRawText, <<"L", "T", "N", "G">>)
    /\ (/\ variant = "json"
        /\ resolveIn.condition = "IFR"
        /\ resolveIn.wind = 30
        /\ resolveIn.wxstring = <<>>
        /\ Contains(resolveIn.currentRawText, <<"L", "T", "G">>))
         => /\ leds[resolveIn.led] = Red
            /\ InList(resolveIn.led, lightningLeds)
            /\ InList(resolveIn.led, highwindLeds)
            /\ ~InList(resolveIn.led, windLeds)

\* the call of the scenario: IFR, wind 30, no gust, no hazard text, "LTG" in
\* the raw observation
C30_Witness ==
  /\ Resolved /\ variant = "json"
  /\ resolveIn.condition = "IFR"
  /\ resolveIn.wind = 30 /\ resolveIn.gusts = 0
  /\ resolveIn.wxstring = <<>>
  /\ resolveIn.currentRawText = <<"R", "M", "K", " ", "L", "T", "G">>
  /\ leds[resolveIn.led] = Red
  /\ lightningLeds = <<resolveIn.led>>
  /\ highwindLeds = <<resolveIn.led>>
  /\ windLeds = <<>>

Occurrences(i, list) == Cardinality({k \in 1..Len(list) : list[k] = i})

\* c2 is c at 50%, rounded so that a lit channel stays lit
HalfOf(c, c2) ==
  \A k \in 1..3 :
    IF c[k] = 0 THEN c2[k] = 0
    ELSE c2[k] >= 1 /\ 2 * c2[k] - 2 <= c[k] /\ c[k] <= 2 * c2[k] - 1

\* C31: while the moderate-wind pass holds its overlay in fade mode, a slot
\* listed once shows the color it had when the pass began at 50% per
\* channel, and no listed slot has a channel that was lit then and is dark
\* now, so a slot that was not black is not shown black.
C31_FadeKeepsLit ==
  (pc = "wind_hold" /\ FADE_FOR_HIGH_WINDS) =>
    \A i \in Slots :
      InList(i, windLeds) =>
        /\ shown[i] = leds[i]
        /\ \A k \in 1..3 : passStart[i][k] > 0 => leds[i][k] > 0
        /\ passStart[i] # Black => shown[i] # Black
        /\ Occurrences(i, windLeds) = 1 => HalfOf(passStart[i], leds[i])

\* the overlay of a pass over a lit slot
C31_Witness ==
  /\ pc = "wind_hold"
  /\ \E i \in Slots :
       /\ Occurrences(i, windLeds) = 1
       /\ passStart[i] \notin {Black, White}
       /\ leds[i] # passStart[i]

NoHazards == lightningLeds = <<>> /\ highwindLeds = <<>> /\ windLeds = <<>>

\* a pass over an empty list writes nothing and pushes nothing
EmptyPassIdle ==
  (pc \in Passes /\ PassList(pc) = <<>>)
    => leds' = leds /\ shown' = shown /\ pushed' = pushed

\* C32 as stated: a pass over an empty list writes nothing and pushes
\* nothing, and a tick with three empty lists and no fetch due ends without
\* any show().
C32_Original ==
  [][/\ EmptyPassIdle
     /\ (pc = "fetch" /\ ~FetchDue /\ NoHazards /\ pc' = "loop") => ~pushed']_vars

(***************************************************************************)
(* getMetars(): the wait loops.  wait.elapsed is millis() - t in clock      *)
(* ticks, wait.available the bytes the client can read now, wait.unsent    *)
(* those the server has still to send, wait.idle the calls of              *)
(* client.read() that will still find nothing to read.  charSigned is the  *)
(* signedness of plain char in the build.  stream holds the locals of the  *)
(* XML read loop; stream.c is empty until the first read assigns c.        *)
(***************************************************************************)
otherVars == <<gustIn, gustOut, resolveIn, equiv, airportString, pushed,
               sinceUpdate, stream>>

\* the byte an empty client.read() leaves in a char: (char)-1
NO_DATA == "0xFF"

InitWait ==
  /\ InitCommon
  /\ outage = 0
  /\ gustIn = <<>>
  /\ gustOut = -1
  /\ resolveIn = NoCall
  /\ equiv = NoRun
  /\ airportString = <<>>
  /\ pushed = FALSE
  /\ sinceUpdate = -1
  /\ stream = IF variant = "xml"
              THEN [parser |-> ParserStart, led |-> <<>>, chunks |-> 0, c |-> ""]
              ELSE NoStream
  /\ wait \in [stage : {"connecting"}, result : {"none"}, elapsed : {0},
               peerOpen : BOOLEAN, available : {<<>>},
               unsent : SeqsUpTo({"K", "0xC3"}, MaxChars),
               foundJson : {FALSE}, charSigned : BOOLEAN, idle : 0..MaxIdle]

Returned(result) == [wait EXCEPT !.stage = "returned", !.result = result]

TimedOut == wait.elapsed >= ReadTimeout

\* client.connected(): the connection is open or received data is unread
connected == wait.peerOpen \/ wait.available # <<>>

\* millis() moves on
ClockAdvance ==
  /\ wait.stage \notin {"idle", "returned"}
  /\ wait.elapsed < ReadTimeout
  /\ wait' = [wait EXCEPT !.elapsed = @ + 1]
  /\ UNCHANGED tickVars /\ UNCHANGED otherVars

\* a byte of the response arrives
ServerSends ==
  /\ wait.stage \notin {"idle", "returned"}
  /\ wait.peerOpen /\ wait.unsent # <<>>
  /\ wait' = [wait EXCEPT !.unsent = Tail(@),
                          !.available = Append(@, Head(wait.unsent))]
  /\ UNCHANGED tickVars /\ UNCHANGED otherVars

\* the server closes the connection
ServerCloses ==
  /\ wait.stage \notin {"idle", "returned"}
  /\ wait.peerOpen
  /\ wait' = [wait EXCEPT !.peerOpen = FALSE, !.unsent = <<>>]
  /\ UNCHANGED tickVars /\ UNCHANGED otherVars

\* while (!client.connected()): timeout test, then delay(1000)
ConnectWait ==
  /\ wait.stage = "connecting"
  /\ wait' = IF connected
             THEN [wait EXCEPT !.stage = IF variant = "json" THEN "headers"
                                         ELSE "reading"]
             ELSE IF TimedOut THEN Returned("false")
             ELSE [wait EXCEPT !.elapsed = @ + 1]
  /\ UNCHANGED tickVars /\ UNCHANGED otherVars

\* JSON sketch, header loop: one test of the loop condition and one pass
HeaderStep ==
  /\ wait.stage = "headers"
  /\ \E endOfHeaders \in BOOLEAN :
       wait' = IF ~(connected /\ ~wait.foundJson)
               THEN IF wait.foundJson THEN [wait EXCEPT !.stage = "body"]
                    ELSE Returned("false")
               ELSE IF wait.available # <<>>
               THEN [wait EXCEPT !.available = Tail(@), !.elapsed = 0,
                                 !.foundJson = endOfHeaders]
               ELSE IF TimedOut THEN Returned("false")
               ELSE wait
  /\ UNCHANGED tickVars /\ UNCHANGED otherVars

\* JSON sketch, body loop; the timeout breaks the loop and the text read so
\* far goes on to the parser
BodyStep ==
  /\ wait.stage = "body"
  /\ wait' = IF ~(connected \/ wait.available # <<>>) THEN Returned("parsed")
             ELSE IF wait.available # <<>>
             THEN [wait EXCEPT !.available = Tail(@), !.elapsed = 0]
             ELSE IF TimedOut THEN Returned("parsed")
             ELSE wait
  /\ UNCHANGED tickVars /\ UNCHANGED otherVars

\* client.read(): the next unread byte, or -1 when there is none
ReadResult == IF wait.available = <<>> THEN "-1" ELSE Head(wait.available)

\* (c = client.read()) >= 0 with c a plain char: an unsigned char is never
\* negative, a signed char is negative for -1 and for a byte above 0x7F
ReadAccepted ==
  ~wait.charSigned \/ ReadResult \notin {"-1", "0xC3", NO_DATA}

\* the character c holds after the assignment
ReadChar == IF ReadResult = "-1" THEN NO_DATA ELSE ReadResult

\* XML sketch, read loop: one test of client.connected() and, inside the
\* loop, the read of line 459.  The byte read is consumed and stored in c
\* whether or not c >= 0 holds.  An accepted character takes the call to the
\* yield() of line 460; otherwise the timeout is tested.  When the loop
\* ends, the slots of the last airport are colored and the key LEDs are set.
XmlReadStep ==
  /\ wait.stage = "reading"
  /\ (connected /\ wait.available = <<>>) => wait.idle > 0
  /\ LET polled ==
           IF wait.available = <<>> THEN [wait EXCEPT !.idle = @ - 1]
           ELSE [wait EXCEPT !.available = Tail(@)]
     IN IF ~connected
        THEN /\ wait' = Returned("true")
             /\ stream' = [stream EXCEPT !.led = <<>>]
             /\ SetResolver(KeyLeds(ColorMatchedXml(Resolver,
                                                    Fields(stream.parser),
                                                    stream.led)))
             /\ UNCHANGED <<shown, ledStatus, pushed>>
        ELSE IF ReadAccepted
        THEN /\ wait' = [polled EXCEPT !.stage = "yield"]
             /\ stream' = [stream EXCEPT !.c = ReadChar]
             /\ UNCHANGED <<leds, shown, ledStatus, pushed, lightningLeds,
                            highwindLeds, windLeds>>
        ELSE IF TimedOut
        THEN /\ wait' = [polled EXCEPT !.stage = "returned",
                                       !.result = "false"]
             /\ stream' = [stream EXCEPT !.c = ReadChar]
             /\ leds' = fill_solid(NUM_AIRPORTS, Cyan)
             /\ shown' = leds'
             /\ ledStatus' = TRUE
             /\ pushed' = TRUE
             /\ UNCHANGED <<lightningLeds, highwindLeds, windLeds>>
        ELSE /\ wait' = polled
             /\ stream' = [stream EXCEPT !.c = ReadChar]
             /\ UNCHANGED <<leds, shown, ledStatus, pushed, lightningLeds,
                            highwindLeds, windLeds>>
  /\ UNCHANGED <<variant, airports, isWiFiConnected, loops, pc,
                 originalColors, passStart, delayed, fetchResult, failure,
                 lastPayload, connectedThisTick, ticksSinceFetch, outage,
                 gustIn, gustOut, resolveIn, equiv, airportString,
                 sinceUpdate>>

\* XML sketch, read loop, from the return of yield() to the end of the pass:
\* the character in c goes through the marker chain (with the doColor()
\* calls of the <raw_text> flush and the slot match of a station
\* identifier) and t = millis() restarts the timeout clock
XmlParseStep ==
  /\ wait.stage = "yield"
  /\ \E q \in {XmlRead(stream.parser, stream.c)} :
     \E r \in {ReplayEvents([st |-> Resolver, led |-> stream.led],
                            SubSeq(q.events, Len(stream.parser.events) + 1,
                                   Len(q.events)),
                            q.read)} :
       /\ wait' = [wait EXCEPT !.stage = "reading", !.elapsed = 0]
       /\ stream' = [stream EXCEPT !.parser = q, !.led = r.led]
       /\ SetResolver(r.st)
  /\ UNCHANGED <<variant, airports, shown, isWiFiConnected, ledStatus, loops,
                 pc, originalColors, passStart, delayed, fetchResult, failure,
                 lastPayload, connectedThisTick, ticksSinceFetch, outage,
                 gustIn, gustOut, resolveIn, equiv, airportString, pushed,
                 sinceUpdate>>

NextWait ==
  \/ ClockAdvance
  \/ ServerSends
  \/ ServerCloses
  \/ ConnectWait
  \/ HeaderStep
  \/ BodyStep
  \/ XmlReadStep
  \/ XmlParseStep

SpecWait == InitWait /\ [][NextWait]_vars

\* the condition of the wait loop the call is in holds
Spinning ==
  CASE wait.stage = "connecting" -> ~connected
    [] wait.stage = "headers" -> connected /\ ~wait.foundJson
    [] wait.stage \in {"body", "reading"} -> connected
    [] OTHER -> FALSE

\* C33 as stated, for the exit on the clock: a pass of a wait loop of
\* getMetars() that finds nothing to read when READ_TIMEOUT has passed since
\* the last character ends the call, so that no wait loop goes on spinning
\* while the clock advances
C33_TimeoutEnds ==
  [][((ConnectWait \/ HeaderStep \/ BodyStep \/ XmlReadStep)
        /\ Spinning /\ wait.available = <<>> /\ TimedOut)
       => wait'.stage = "returned"]_vars

(***************************************************************************)
(* Update period                                                           *)
(***************************************************************************)
\* a step in which getMetars() returns true and the previous call did too
NextUpdate ==
  /\ pc = "fetch" /\ pc' = "loop"
  /\ fetchResult' = "ok" /\ ticksSinceFetch' = 0
  /\ sinceUpdate >= 0

\* C34 as stated: between two consecutive successful updates loop() spends
\* REQUEST_INTERVAL plus LOOP_INTERVAL in delay(), whether the earlier update
\* found hazards or not
C34_UpdatePeriod ==
  [][NextUpdate => sinceUpdate = REQUEST_INTERVAL + LOOP_INTERVAL]_vars

(***************************************************************************)
(* Store and driver at the end of a tick                                   *)
(***************************************************************************)
\* a tick of loop() has ended (by its delay() or by an early return)
TickEnded == pc = "loop" /\ (ticksSinceFetch > 0 \/ fetchResult # "none")

\* C35: in the JSON sketch, whenever a tick has ended, the frame last pushed
\* by FastLED.show() equals the LED store
C35_StorePushed ==
  (variant = "json" /\ TickEnded) => shown = leds

\* a JSON tick that ran an overlay pass and took no fetch has ended
C35_Witness ==
  /\ variant = "json" /\ TickEnded
  /\ delayed = "LOOP_INTERVAL" /\ ticksSinceFetch > 0
  /\ ~NoHazards
  /\ shown = leds

(***************************************************************************)
(* Repeated indices in the hazard lists                                    *)
(***************************************************************************)
\* C36 as stated: after any fetch, for any payload, no slot index occurs more
\* than once in lightningLeds, in highwindLeds or in windLeds
C36_NoRepeatedIndex ==
  \A i \in Slots :
     /\ Occurrences(i, lightningLeds) <= 1
     /\ Occurrences(i, highwindLeds) <= 1
     /\ Occurrences(i, windLeds) <= 1

(***************************************************************************)
(* XML variant: the read loop of getMetars() on an arbitrary stream.  The  *)
(* server sends the body in chunks (a recognized marker, a whole element,  *)
(* another marker, a closing marker or a single byte) and the loop takes   *)
(* the bytes one at a time.                                                *)
(***************************************************************************)
MaxChunks == 3

StreamChunks ==
  {RAW_TEXT_TAG, STATION_ID_TAG, WIND_SPEED_TAG, WIND_GUST_TAG,
   FLIGHT_CATEGORY_TAG, WX_STRING_TAG}
    \cup {Element(STATION_ID_TAG, Spell("KGLS")),
          Element(FLIGHT_CATEGORY_TAG, Spell("VFR")),
          Element(WIND_SPEED_TAG, <<"2", "0">>)}
    \cup {<<"<", "x", ">">>, <<"<", "/", "x", ">">>}
    \cup {<<"K">>, <<"<">>, <<NEWLINE>>, <<NO_DATA>>}

\* the read loop has been entered on an open connection
InitStream ==
  /\ InitCommon
  /\ outage = 0
  /\ gustIn = <<>>
  /\ gustOut = -1
  /\ resolveIn = NoCall
  /\ equiv = NoRun
  /\ airportString = <<>>
  /\ pushed = FALSE
  /\ sinceUpdate = -1
  /\ variant = "xml"
  /\ stream = [parser |-> ParserStart, led |-> <<>>, chunks |-> 0, c |-> ""]
  /\ wait \in [stage : {"reading"}, result : {"none"}, elapsed : {0},
               peerOpen : {TRUE}, available : {<<>>}, unsent : {<<>>},
               foundJson : {FALSE}, charSigned : BOOLEAN, idle : {0}]

\* the next chunk of the body arrives
StreamSend ==
  /\ wait.stage \in {"reading", "yield"}
  /\ wait.peerOpen /\ wait.available = <<>>
  /\ stream.chunks < MaxChunks
  /\ \E chunk \in StreamChunks :
       /\ wait' = [wait EXCEPT !.available = chunk]
       /\ stream' = [stream EXCEPT !.chunks = @ + 1]
  /\ UNCHANGED <<tickVars, gustIn, gustOut, resolveIn, equiv, airportString,
                 pushed, sinceUpdate>>

NextStream == StreamSend \/ ServerCloses \/ XmlReadStep \/ XmlParseStep

SpecStream == InitStream /\ [][NextStream]_vars

\* the number of field flags that are set
FlagsSet(p) ==
  Cardinality({f \in {"readingRawText", "readingAirport", "readingCondition",
                      "readingWind", "readingGusts", "readingWxstring"} : p[f]})

Buffers ==
  {"currentRawText", "currentAirport", "currentCondition", "currentWind",
   "currentGusts", "currentWxstring"}

\* the field buffers the step from p to q appended a character to
Grown(p, q) == {b \in Buffers : Len(q[b]) > Len(p[b])}

\* C37: after every prefix of every stream at most one field flag is set;
\* a character read is appended to at most one field buffer; a character
\* read while no flag is set is appended to none
C37_OneFlag ==
  /\ [](stream # NoStream => FlagsSet(stream.parser) <= 1)
  /\ [][(XmlReadStep \/ XmlParseStep) =>
          /\ Cardinality(Grown(stream.parser, stream'.parser)) <= 1
          /\ \A b \in Grown(stream.parser, stream'.parser) :
                stream'.parser[b] = Append(stream.parser[b], stream.c)
          /\ FlagsSet(stream.parser) = 0
               => Grown(stream.parser, stream'.parser) = {}]_vars

\* the elements <station_id>KGLS</station_id> and
\* <flight_category>VFR</flight_category> and then <raw_text> have been read:
\* each flag went up at its marker and down at the "<" that followed its
\* text, the flush at <raw_text> colored the slots of KGLS, and the raw text
\* flag is the one flag set
C37_Witness ==
  /\ wait.stage = "reading" /\ wait.available = <<>>
  /\ stream.chunks = 3
  /\ stream.parser.readingRawText /\ FlagsSet(stream.parser) = 1
  /\ Len(stream.parser.events) = 2
  /\ stream.parser.events[1].kind = "station"
  /\ stream.parser.events[2].kind = "flush"
  /\ stream.parser.events[2].fields.station_id = "KGLS"
  /\ stream.parser.events[2].fields.flight_category = "VFR"
  /\ leds[0] = Green
  /\ stream.led = <<>>

(***************************************************************************)
(* Slots outside the list of a pass                                        *)
(***************************************************************************)
\* C38: at the push that shows the overlay of a pass and at the push that
\* follows the restore, every slot that is not in the list of the pass has,
\* in the store and in the frame pushed, the color it had before the pass
C38_OnlyListedWritten ==
  [][\A p \in Passes :
       /\ (pc = p /\ pc' = Hold(p)) =>
            \A i \in Slots :
               ~InList(i, PassList(p)) => (leds'[i] = leds[i] /\ shown'[i] = leds[i])
       /\ (pc = Hold(p) /\ pc' = AfterPass(p)) =>
            \A i \in Slots :
               ~InList(i, PassList(p))
                  => (leds'[i] = passStart[i] /\ shown'[i] = passStart[i])]_vars

\* a pass has just restored its slots: a listed slot is back from its
\* overlay, and a lit slot outside the list shows its color
C38_Witness ==
  /\ pc = "highwind" /\ lightningLeds # <<>>
  /\ shown = leds
  /\ \E i \in Slots : ~InList(i, lightningLeds) /\ ~InList(i, highwindLeds)
                      /\ i >= LEGEND /\ leds[i] # Black
  /\ \E j \in Slots : InList(j, lightningLeds) /\ leds[j] # White

(***************************************************************************)
(* A body without records                                                  *)
(***************************************************************************)
\* C39: in the JSON sketch, when getMetars() has returned true on a body
\* that holds no record (an empty array, or a value that is no array), every
\* non-legend slot is black, the three hazard lists are empty and the tick
\* ended with the REQUEST_INTERVAL sleep
C39_ZeroRecords ==
  (variant = "json" /\ JustFetchedOk /\ lastPayload = <<>>) =>
     /\ \A i \in Slots : i >= LEGEND => (leds[i] = Black /\ shown[i] = Black)
     /\ NoHazards
     /\ delayed = "REQUEST_INTERVAL"

\* an update without a record follows one that colored slots and ran an
\* overlay pass: the slots that were lit then are black now
C39_Witness ==
  /\ variant = "json" /\ JustFetchedOk /\ lastPayload = <<>>
  /\ \E i \in Slots : i >= LEGEND /\ passStart[i] # Black /\ leds[i] = Black
  /\ delayed = "REQUEST_INTERVAL"

====
